---- MODULE Spec2Model ----
(***************************************************************************)
(* Model of the kimchi batch verifier (kimchi/src/verifier.rs): the        *)
(* control flow of batch_verify, the checks of to_batch and the            *)
(* Fiat-Shamir transcript of ProverProof::oracles.                         *)
(*                                                                         *)
(* Group elements, field elements and sponge states are abstracted: a      *)
(* sponge is the sequence of operations applied to it since `new`, a       *)
(* commitment or evaluation is the name of the proof / index field it      *)
(* comes from.  Vectors whose only observed property is their length are   *)
(* modelled by that length.                                                *)
(***************************************************************************)
EXTENDS Integers, Sequences, FiniteSets, TLC

(* ---------------------------------------------------------------------- *)
(* Program constants                                                       *)
(* ---------------------------------------------------------------------- *)
COLUMNS == 15
PERMUTS == 7

(* ---------------------------------------------------------------------- *)
(* Bounds of the model                                                     *)
(* ---------------------------------------------------------------------- *)
MaxBatch == 2
MaxPrev == 1
MaxPublic == 1
MaxSorted == 1
MaxChunks == 2
MaxPublicValue == 2
MaxSeed == 2
MaxGates == 5
MaxCalls == 4
MaxLen == 3

(* ---------------------------------------------------------------------- *)
(* Results: Ok(()) and the VerifyError variants used by the verifier       *)
(* ---------------------------------------------------------------------- *)
Res(kind, a, b, s) == [kind |-> kind, a |-> a, b |-> b, s |-> s]
Ok == Res("Ok", 0, 0, "")
Pending == Res("pending", 0, 0, "")
Err(kind) == Res(kind, 0, 0, "")
DifferentSRS == Err("DifferentSRS")
SRSTooSmall == Err("SRSTooSmall")
OpenProof == Err("OpenProof")
LookupCommitmentMissing == Err("LookupCommitmentMissing")
LookupEvalsMissing == Err("LookupEvalsMissing")
ProofInconsistentLookup == Err("ProofInconsistentLookup")
IncorrectRuntimeProof == Err("IncorrectRuntimeProof")
IncorrectPrevChallengesLength(expected, got) == Res("IncorrectPrevChallengesLength", expected, got, "")
IncorrectPubicInputLength(expected) == Res("IncorrectPubicInputLength", expected, 0, "")
IncorrectCommitmentLength(name) == Res("IncorrectCommitmentLength", 0, 0, name)

(* ---------------------------------------------------------------------- *)
(* Inputs: verifier indices and prover proofs                              *)
(* ---------------------------------------------------------------------- *)
NoLookupIndex == [present |-> FALSE, runtime_tables_selector |-> FALSE, joint |-> FALSE]
NoLookup == [present |-> FALSE, sorted |-> 0, runtime |-> FALSE]
Lookups == {NoLookup} \cup [present : {TRUE}, sorted : 0..MaxSorted, runtime : BOOLEAN]

(* index.linearization.index_terms as the list of its columns; a compiled   *)
(* index refers to lookup columns only when it has a lookup index           *)
index_terms_of(li) ==
    <<"Witness", "Coefficient", "Z", "Index">>
      \o (IF li.present THEN <<"LookupKindIndex", "LookupSorted", "LookupAggreg">> ELSE <<>>)
      \o (IF li.runtime_tables_selector THEN <<"LookupRuntimeSelector">> ELSE <<>>)

MkIndex(srs, dsize, prev, pub, li) ==
    [srs |-> srs, domain_size |-> dsize, prev_challenges |-> prev, public |-> pub,
     lookup_index |-> li, index_terms |-> index_terms_of(li)]

MkProof(prev, pub, lk, tlen, e0, e1, opening) ==
    [prev_challenges |-> prev, public |-> pub, lookup |-> lk, t_comm_len |-> tlen,
     evals0_lookup |-> e0, evals1_lookup |-> e1, opening |-> opening]

RECURSIVE SeqsUpTo(_, _)
SeqsUpTo(S, n) ==
    IF n = 0 THEN {<<>>}
    ELSE LET shorter == SeqsUpTo(S, n - 1)
         IN shorter \cup {Append(s, x) : s \in {t \in shorter : Len(t) = n - 1}, x \in S}

(* ---------------------------------------------------------------------- *)
(* Sponges: a sponge is the list of operations applied to it               *)
(* ---------------------------------------------------------------------- *)
Op(op, what, k) == [op |-> op, what |-> what, k |-> k]
New == Op("new", "", 0)
AbsorbFq(what) == Op("absorb_fq", what, 0)
AbsorbG(what, k) == Op("absorb_g", what, k)
Absorb(what, k) == Op("absorb", what, k)
AbsorbMultiple(what, k) == Op("absorb_multiple", what, k)
Challenge(what) == Op("challenge", what, 0)

(* for .. in xs { sponge.absorb_g(x) } over a vector of n commitments *)
AbsorbEach(what, n) == [k \in 1..n |-> AbsorbG(what, k - 1)]

Squeezed(sponge, what) == \E k \in DOMAIN sponge : sponge[k] = Challenge(what)
Absorbed(sponge, what) == \E k \in DOMAIN sponge : sponge[k].what = what /\ sponge[k].op # "challenge"

(* ---------------------------------------------------------------------- *)
(* The local state of one to_batch call                                    *)
(*   pc          : the next block of to_batch / oracles to run             *)
(*   res         : Pending, Ok (a BatchEvaluationProof was returned) or    *)
(*                 the error returned                                      *)
(*   lgr_comm    : the lagrange bases of the domain were fetched           *)
(*   public_comm : the negated public-input commitment was computed        *)
(*   fq_sponge   : operations applied to the Fq sponge ( <<>> : not made)  *)
(*   fr_sponge   : operations applied to the main Fr sponge                *)
(*   prev_sponge : operations applied to the Fr sponge of the previous     *)
(*                 recursion challenges                                    *)
(*   joint_combiner : Option of the joint combiner and whether it was      *)
(*                 squeezed                                                *)
(*   ft_eval0, f_comm : computed or not                                    *)
(*   evaluations : the Evaluation list, in order                           *)
(*   digest      : the Fq sponge the digest was taken of ( <<>> : not taken)*)
(*   prev_challenge_digest : the sponge that digest was taken of           *)
(*   es          : the rows given to combined_inner_product                *)
(*   scalars, commitments : the two lists f_comm is the product of         *)
(*   term        : the number of index terms of the linearization taken    *)
(* ---------------------------------------------------------------------- *)
NoJointCombiner == [present |-> FALSE, squeezed |-> FALSE]

(* the evaluations of polynomial name[k] at evaluation point number row *)
Ev(name, k, row) == [name |-> name, k |-> k, row |-> row]
BothRows(name, k) == <<Ev(name, k, 0), Ev(name, k, 1)>>

(* Evaluation { commitment, evaluations, degree_bound: None } *)
Evaluation(comm, k, rows) ==
    [commitment |-> [name |-> comm, k |-> k], evaluations |-> rows, degree_bound |-> "None"]

to_batch_entry ==
    [pc |-> "check_prev", res |-> Pending, lgr_comm |-> FALSE, public_comm |-> FALSE,
     fq_sponge |-> <<>>, fr_sponge |-> <<>>, prev_sponge |-> <<>>,
     joint_combiner |-> NoJointCombiner, ft_eval0 |-> FALSE, f_comm |-> FALSE,
     evaluations |-> <<>>, digest |-> <<>>, prev_challenge_digest |-> <<>>, es |-> <<>>,
     scalars |-> <<>>, commitments |-> <<>>, term |-> 0]

Return(tb, res) == [tb EXCEPT !.pc = "returned", !.res = res]

(* variant of check_prev_challenges: the two lengths of the error swapped *)
check_prev_challenges_swapped(index, proof, tb) ==
    IF tb.pc # "check_prev" THEN tb
    ELSE IF proof.prev_challenges # index.prev_challenges
         THEN Return(tb, IncorrectPrevChallengesLength(proof.prev_challenges,
                                                       index.prev_challenges))
         ELSE [tb EXCEPT !.pc = "public_input"]

(* verifier.rs 455-460 *)
check_prev_challenges(index, proof, tb) ==
    IF tb.pc # "check_prev" THEN tb
    ELSE IF proof.prev_challenges # index.prev_challenges
         THEN Return(tb, IncorrectPrevChallengesLength(index.prev_challenges,
                                                       proof.prev_challenges))
         ELSE [tb EXCEPT !.pc = "public_input"]

(* variant of public_input: the error carries the length found in the proof *)
public_input_got(index, proof, tb) ==
    IF tb.pc # "public_input" THEN tb
    ELSE IF proof.public # index.public
         THEN Return([tb EXCEPT !.lgr_comm = TRUE], IncorrectPubicInputLength(proof.public))
         ELSE [tb EXCEPT !.pc = "oracles", !.lgr_comm = TRUE, !.public_comm = TRUE]

(* verifier.rs 462-494: lagrange bases, length check, public_comm *)
public_input(index, proof, tb) ==
    IF tb.pc # "public_input" THEN tb
    ELSE IF proof.public # index.public
         THEN Return([tb EXCEPT !.lgr_comm = TRUE], IncorrectPubicInputLength(index.public))
         ELSE [tb EXCEPT !.pc = "oracles", !.lgr_comm = TRUE, !.public_comm = TRUE]

(* verifier.rs 59-81: sponge setup and the unconditional absorptions *)
oracles_absorb(index, proof, tb) ==
    IF tb.pc # "oracles" THEN tb
    ELSE [tb EXCEPT !.pc = "oracles_lookup",
                    !.fq_sponge = <<New, AbsorbFq("verifier_index_digest")>>
                                    \o AbsorbEach("prev_challenges", proof.prev_challenges)
                                    \o <<AbsorbG("public_comm", 0)>>
                                    \o AbsorbEach("w_comm", COLUMNS)]

(* variant of oracles_lookup: a proof without lookup commitments is treated  *)
(* like an index without lookup                                             *)
oracles_lookup_lenient(index, proof, tb) ==
    IF tb.pc # "oracles_lookup" THEN tb
    ELSE IF ~index.lookup_index.present \/ ~proof.lookup.present
         THEN [tb EXCEPT !.pc = "oracles_beta", !.joint_combiner = NoJointCombiner]
    ELSE IF index.lookup_index.runtime_tables_selector /\ ~proof.lookup.runtime
         THEN Return(tb, IncorrectRuntimeProof)
    ELSE [tb EXCEPT !.pc = "oracles_beta",
                    !.fq_sponge = @ \o (IF index.lookup_index.runtime_tables_selector
                                          THEN <<AbsorbG("lookup.runtime", 0)>> ELSE <<>>)
                                    \o (IF index.lookup_index.joint
                                          THEN <<Challenge("joint_combiner")>> ELSE <<>>)
                                    \o AbsorbEach("lookup.sorted", proof.lookup.sorted),
                    !.joint_combiner = [present |-> TRUE,
                                        squeezed |-> index.lookup_index.joint]]

(* variant of oracles_lookup: the joint combiner is squeezed after the      *)
(* sorted commitments are absorbed                                          *)
oracles_lookup_squeeze_last(index, proof, tb) ==
    IF tb.pc # "oracles_lookup" THEN tb
    ELSE IF ~index.lookup_index.present
         THEN [tb EXCEPT !.pc = "oracles_beta", !.joint_combiner = NoJointCombiner]
    ELSE IF ~proof.lookup.present
         THEN Return(tb, LookupCommitmentMissing)
    ELSE IF index.lookup_index.runtime_tables_selector /\ ~proof.lookup.runtime
         THEN Return(tb, IncorrectRuntimeProof)
    ELSE [tb EXCEPT !.pc = "oracles_beta",
                    !.fq_sponge = @ \o (IF index.lookup_index.runtime_tables_selector
                                          THEN <<AbsorbG("lookup.runtime", 0)>> ELSE <<>>)
                                    \o AbsorbEach("lookup.sorted", proof.lookup.sorted)
                                    \o (IF index.lookup_index.joint
                                          THEN <<Challenge("joint_combiner")>> ELSE <<>>),
                    !.joint_combiner = [present |-> TRUE,
                                        squeezed |-> index.lookup_index.joint]]

(* verifier.rs 83-124: the lookup block and the joint combiner *)
oracles_lookup(index, proof, tb) ==
    IF tb.pc # "oracles_lookup" THEN tb
    ELSE IF ~index.lookup_index.present
         THEN [tb EXCEPT !.pc = "oracles_beta", !.joint_combiner = NoJointCombiner]
    ELSE IF ~proof.lookup.present
         THEN Return(tb, LookupCommitmentMissing)
    ELSE IF index.lookup_index.runtime_tables_selector /\ ~proof.lookup.runtime
         THEN Return(tb, IncorrectRuntimeProof)
    ELSE [tb EXCEPT !.pc = "oracles_beta",
                    !.fq_sponge = @ \o (IF index.lookup_index.runtime_tables_selector
                                          THEN <<AbsorbG("lookup.runtime", 0)>> ELSE <<>>)
                                    \o (IF index.lookup_index.joint
                                          THEN <<Challenge("joint_combiner")>> ELSE <<>>)
                                    \o AbsorbEach("lookup.sorted", proof.lookup.sorted),
                    !.joint_combiner = [present |-> TRUE,
                                        squeezed |-> index.lookup_index.joint]]

(* verifier.rs 126-144: beta, gamma, aggregation, z, alpha *)
oracles_beta(index, proof, tb) ==
    IF tb.pc # "oracles_beta" THEN tb
    ELSE [tb EXCEPT !.pc = "oracles_t",
                    !.fq_sponge = @ \o <<Challenge("beta"), Challenge("gamma")>>
                                    \o (IF proof.lookup.present
                                          THEN <<AbsorbG("lookup.aggreg", 0)>> ELSE <<>>)
                                    \o <<AbsorbG("z_comm", 0), Challenge("alpha")>>]

(* variant of oracles_t: t_comm is absorbed before its length is checked *)
oracles_t_absorb_first(index, proof, tb) ==
    IF tb.pc # "oracles_t" THEN tb
    ELSE LET absorbed == [tb EXCEPT !.fq_sponge = @ \o <<AbsorbG("t_comm", 0)>>]
         IN IF proof.t_comm_len # PERMUTS
            THEN Return(absorbed, IncorrectCommitmentLength("t"))
            ELSE [absorbed EXCEPT !.pc = "oracles_fr",
                                  !.fq_sponge = @ \o <<Challenge("zeta")>>]

(* verifier.rs 146-158: length of t_comm, absorption of t_comm, zeta *)
oracles_t(index, proof, tb) ==
    IF tb.pc # "oracles_t" THEN tb
    ELSE IF proof.t_comm_len # PERMUTS
         THEN Return(tb, IncorrectCommitmentLength("t"))
         ELSE [tb EXCEPT !.pc = "oracles_fr",
                         !.fq_sponge = @ \o <<AbsorbG("t_comm", 0), Challenge("zeta")>>]

(* variant of oracles_fr: ft_eval1 is absorbed after the evaluations *)
oracles_fr_ft_last(index, proof, tb) ==
    IF tb.pc # "oracles_fr" THEN tb
    ELSE LET prev == <<New>> \o [k \in 1..proof.prev_challenges |->
                                    AbsorbMultiple("prev_challenges.chals", k - 1)]
         IN [tb EXCEPT !.pc = "oracles_ft",
                       !.digest = tb.fq_sponge,
                       !.prev_sponge = prev,
                       !.prev_challenge_digest = prev,
                       !.fr_sponge = <<New, Absorb("digest", 0),
                                       Absorb("prev_challenge_digest", 0),
                                       AbsorbMultiple("public_evals", 0),
                                       AbsorbMultiple("public_evals", 1),
                                       Op("absorb_evaluations", "evals", 0),
                                       Absorb("ft_eval1", 0),
                                       Challenge("v"), Challenge("u")>>]

(* variant of oracles_fr: the digest is taken on the Fq sponge itself *)
oracles_fr_digest_in_place(index, proof, tb) ==
    IF tb.pc # "oracles_fr" THEN tb
    ELSE LET prev == <<New>> \o [k \in 1..proof.prev_challenges |->
                                    AbsorbMultiple("prev_challenges.chals", k - 1)]
         IN [tb EXCEPT !.pc = "oracles_ft",
                       !.digest = tb.fq_sponge,
                       !.fq_sponge = @ \o <<Op("digest", "", 0)>>,
                       !.prev_sponge = prev,
                       !.prev_challenge_digest = prev,
                       !.fr_sponge = <<New, Absorb("digest", 0),
                                       Absorb("prev_challenge_digest", 0),
                                       Absorb("ft_eval1", 0),
                                       AbsorbMultiple("public_evals", 0),
                                       AbsorbMultiple("public_evals", 1),
                                       Op("absorb_evaluations", "evals", 0),
                                       Challenge("v"), Challenge("u")>>]

(* verifier.rs 160-274: the Fr sponge up to v and u; the digest is taken    *)
(* on a clone of the Fq sponge, the digest of the previous challenges on a  *)
(* sponge of its own                                                        *)
oracles_fr(index, proof, tb) ==
    IF tb.pc # "oracles_fr" THEN tb
    ELSE LET prev == <<New>> \o [k \in 1..proof.prev_challenges |->
                                    AbsorbMultiple("prev_challenges.chals", k - 1)]
         IN [tb EXCEPT !.pc = "oracles_ft",
                       !.digest = tb.fq_sponge,
                       !.prev_sponge = prev,
                       !.prev_challenge_digest = prev,
                       !.fr_sponge = <<New, Absorb("digest", 0),
                                       Absorb("prev_challenge_digest", 0),
                                       Absorb("ft_eval1", 0),
                                       AbsorbMultiple("public_evals", 0),
                                       AbsorbMultiple("public_evals", 1),
                                       Op("absorb_evaluations", "evals", 0),
                                       Challenge("v"), Challenge("u")>>]

(* verifier.rs 276-434: ft_eval0, combined inner product, OraclesResult *)
oracles_ft(index, proof, tb) ==
    (* verifier.rs 351-403: the list `es` given to combined_inner_product *)
    LET combined_inner_product_es ==
            [k \in 1..proof.prev_challenges |-> BothRows("prev_challenges.evals", k - 1)]
            \o <<BothRows("public_evals", 0),
                 <<Ev("ft_eval0", 0, 0), Ev("ft_eval1", 0, 1)>>,
                 BothRows("evals.z", 0),
                 BothRows("evals.generic_selector", 0),
                 BothRows("evals.poseidon_selector", 0)>>
            \o [c \in 1..COLUMNS |-> BothRows("evals.w", c - 1)]
            \o [c \in 1..(PERMUTS - 1) |-> BothRows("evals.s", c - 1)]
    IN
        IF tb.pc # "oracles_ft" THEN tb
        ELSE [tb EXCEPT !.pc = "f_comm", !.ft_eval0 = TRUE,
                        !.es = combined_inner_product_es]

(* the number of scalars ConstraintSystem::gnrc_scalars returns *)
gnrc_scalars_len == 6

(* verifier.rs 525-557: the permutation pair and the generic scalars with   *)
(* the first coefficient commitments; the two lengths are asserted equal    *)
f_comm(index, proof, tb) ==
    IF tb.pc # "f_comm" THEN tb
    ELSE LET generic_com == [k \in 1..(IF gnrc_scalars_len < COLUMNS THEN gnrc_scalars_len
                                                                     ELSE COLUMNS) |->
                                [name |-> "coefficients_comm", k |-> k - 1]]
             generic_scalars == [k \in 1..gnrc_scalars_len |->
                                    [name |-> "generic_scalars", k |-> k - 1]]
         IN IF Len(generic_scalars) # Len(generic_com) THEN Return(tb, Err("panic"))
            ELSE [tb EXCEPT !.pc = "f_comm_terms",
                            !.commitments = <<[name |-> "sigma_comm", k |-> PERMUTS - 1]>>
                                              \o generic_com,
                            !.scalars = <<[name |-> "perm_scalars", k |-> 0]>>
                                              \o generic_scalars,
                            !.term = 0]

(* variant of f_comm_term: the scalar of an Index term is pushed without a  *)
(* commitment                                                               *)
f_comm_term_index_scalar_only(index, proof, tb) ==
    IF tb.pc # "f_comm_terms" THEN tb
    ELSE IF tb.term = Len(index.index_terms)
         THEN [tb EXCEPT !.pc = "evaluations", !.f_comm = TRUE]
    ELSE LET col == index.index_terms[tb.term + 1]
             scalar == [name |-> "scalar", k |-> tb.term]
             comm == CASE col = "Witness" -> "w_comm"
                       [] col = "Coefficient" -> "coefficients_comm"
                       [] col = "Z" -> "z_comm"
                       [] col = "LookupSorted" -> "lookup.sorted"
                       [] col = "LookupAggreg" -> "lookup.aggreg"
                       [] col = "LookupKindIndex" -> "lookup_selectors"
                       [] col = "LookupRuntimeSelector" -> "runtime_tables_selector"
                       [] OTHER -> "selector_comm"
         IN IF col \in {"LookupSorted", "LookupAggreg"} /\ ~proof.lookup.present
            THEN Return(tb, LookupCommitmentMissing)
            ELSE [tb EXCEPT !.scalars = Append(@, scalar),
                            !.commitments = IF col = "Index" THEN @
                                            ELSE Append(@, [name |-> comm, k |-> 0]),
                            !.term = @ + 1]

(* verifier.rs 570-670: one index term of the linearization, its scalar and *)
(* the commitment its column selects; after the last term, the              *)
(* multi-scalar multiplication                                              *)
f_comm_term(index, proof, tb) ==
    IF tb.pc # "f_comm_terms" THEN tb
    ELSE IF tb.term = Len(index.index_terms)
         THEN [tb EXCEPT !.pc = "evaluations", !.f_comm = TRUE]
    ELSE LET col == index.index_terms[tb.term + 1]
             scalar == [name |-> "scalar", k |-> tb.term]
             comm == CASE col = "Witness" -> "w_comm"
                       [] col = "Coefficient" -> "coefficients_comm"
                       [] col = "Z" -> "z_comm"
                       [] col = "LookupSorted" -> "lookup.sorted"
                       [] col = "LookupAggreg" -> "lookup.aggreg"
                       [] col = "LookupKindIndex" -> "lookup_selectors"
                       [] col = "LookupRuntimeSelector" -> "runtime_tables_selector"
                       [] OTHER -> "selector_comm"
         IN IF col \in {"LookupSorted", "LookupAggreg"} /\ ~proof.lookup.present
            THEN Return(tb, LookupCommitmentMissing)
            ELSE [tb EXCEPT !.scalars = Append(@, scalar),
                            !.commitments = Append(@, [name |-> comm, k |-> 0]),
                            !.term = @ + 1]

(* verifier.rs 570-670: the loop over the index terms *)
RECURSIVE f_comm_terms(_, _, _)
f_comm_terms(index, proof, tb) ==
    IF tb.pc # "f_comm_terms" THEN tb
    ELSE f_comm_terms(index, proof, f_comm_term(index, proof, tb))

(* variant of evaluations: every sigma commitment, the last one included *)
evaluations_all_sigma(index, proof, tb) ==
    IF tb.pc # "evaluations" THEN tb
    ELSE [tb EXCEPT !.pc = "lookup_evaluations",
                    !.evaluations =
                        [k \in 1..proof.prev_challenges |->
                            Evaluation("prev_challenges.comm", k - 1,
                                       BothRows("prev_challenges.evals", k - 1))]
                        \o <<Evaluation("public_comm", 0, BothRows("public_evals", 0)),
                             Evaluation("ft_comm", 0,
                                        <<Ev("ft_eval0", 0, 0), Ev("ft_eval1", 0, 1)>>),
                             Evaluation("z_comm", 0, BothRows("evals.z", 0)),
                             Evaluation("generic_comm", 0,
                                        BothRows("evals.generic_selector", 0)),
                             Evaluation("psm_comm", 0,
                                        BothRows("evals.poseidon_selector", 0))>>
                        \o [c \in 1..COLUMNS |->
                               Evaluation("w_comm", c - 1, BothRows("evals.w", c - 1))]
                        \o [c \in 1..PERMUTS |->
                               Evaluation("sigma_comm", c - 1, BothRows("evals.s", c - 1))]]

(* verifier.rs 681-778: the evaluations that do not depend on lookup *)
evaluations(index, proof, tb) ==
    IF tb.pc # "evaluations" THEN tb
    ELSE [tb EXCEPT !.pc = "lookup_evaluations",
                    !.evaluations =
                        [k \in 1..proof.prev_challenges |->
                            Evaluation("prev_challenges.comm", k - 1,
                                       BothRows("prev_challenges.evals", k - 1))]
                        \o <<Evaluation("public_comm", 0, BothRows("public_evals", 0)),
                             Evaluation("ft_comm", 0,
                                        <<Ev("ft_eval0", 0, 0), Ev("ft_eval1", 0, 1)>>),
                             Evaluation("z_comm", 0, BothRows("evals.z", 0)),
                             Evaluation("generic_comm", 0,
                                        BothRows("evals.generic_selector", 0)),
                             Evaluation("psm_comm", 0,
                                        BothRows("evals.poseidon_selector", 0))>>
                        \o [c \in 1..COLUMNS |->
                               Evaluation("w_comm", c - 1, BothRows("evals.w", c - 1))]
                        \o [c \in 1..(PERMUTS - 1) |->
                               Evaluation("sigma_comm", c - 1, BothRows("evals.s", c - 1))]]

(* variant of lookup_evals_check: the sorted evaluations are counted before *)
(* the presence of the lookup evaluations is checked                        *)
lookup_evals_check_count_first(proof) ==
    IF ~proof.lookup.present THEN LookupCommitmentMissing
    ELSE IF \/ proof.lookup.sorted # proof.evals0_lookup.sorted
            \/ proof.lookup.sorted # proof.evals1_lookup.sorted
         THEN ProofInconsistentLookup
    ELSE IF ~proof.evals0_lookup.present \/ ~proof.evals1_lookup.present
         THEN LookupEvalsMissing
    ELSE Ok

(* variant of lookup_evals_check: only evals[0] is looked at for presence *)
lookup_evals_check_row0(proof) ==
    IF ~proof.lookup.present THEN LookupCommitmentMissing
    ELSE IF ~proof.evals0_lookup.present THEN LookupEvalsMissing
    ELSE IF \/ proof.lookup.sorted # proof.evals0_lookup.sorted
            \/ proof.lookup.sorted # proof.evals1_lookup.sorted
         THEN ProofInconsistentLookup
    ELSE Ok

(* variant of lookup_evals_check: the sorted evaluations of evals[1] are not *)
(* counted                                                                  *)
lookup_evals_check_sorted0(proof) ==
    IF ~proof.lookup.present THEN LookupCommitmentMissing
    ELSE IF ~proof.evals0_lookup.present \/ ~proof.evals1_lookup.present
         THEN LookupEvalsMissing
    ELSE IF proof.lookup.sorted # proof.evals0_lookup.sorted
         THEN ProofInconsistentLookup
    ELSE Ok

(* verifier.rs 782-800: the checks on the lookup part of the proof *)
lookup_evals_check(proof) ==
    IF ~proof.lookup.present THEN LookupCommitmentMissing
    ELSE IF ~proof.evals0_lookup.present \/ ~proof.evals1_lookup.present
         THEN LookupEvalsMissing
    ELSE IF \/ proof.lookup.sorted # proof.evals0_lookup.sorted
            \/ proof.lookup.sorted # proof.evals1_lookup.sorted
         THEN ProofInconsistentLookup
    ELSE Ok

Min(a, b) == IF a < b THEN a ELSE b

(* verifier.rs 780-870: the lookup evaluations and their checks *)
lookup_evaluations(index, proof, tb) ==
    (* verifier.rs 803-813: izip! over the sorted commitments and the two lists  *)
    (* of sorted evaluations stops with the shortest of the three               *)
    LET sorted_evaluations ==
            [k \in 1..Min(proof.lookup.sorted,
                          Min(proof.evals0_lookup.sorted, proof.evals1_lookup.sorted)) |->
                Evaluation("lookup.sorted", k - 1, BothRows("evals.lookup.sorted", k - 1))]
    IN
        IF tb.pc # "lookup_evaluations" THEN tb
        ELSE IF ~index.lookup_index.present THEN [tb EXCEPT !.pc = "finish"]
        ELSE IF lookup_evals_check(proof) # Ok THEN Return(tb, lookup_evals_check(proof))
        ELSE LET pushed == [tb EXCEPT !.evaluations =
                                @ \o sorted_evaluations
                                  \o <<Evaluation("lookup.aggreg", 0,
                                                  BothRows("evals.lookup.aggreg", 0)),
                                       Evaluation("table_comm", 0,
                                                  BothRows("evals.lookup.table", 0))>>]
             IN IF ~index.lookup_index.runtime_tables_selector
                THEN [pushed EXCEPT !.pc = "finish"]
                ELSE IF \/ ~proof.lookup.runtime
                        \/ ~proof.evals0_lookup.runtime
                        \/ ~proof.evals1_lookup.runtime
                     THEN Return(pushed, IncorrectRuntimeProof)
                     ELSE [pushed EXCEPT
                              !.pc = "finish",
                              !.evaluations =
                                  @ \o <<Evaluation("lookup.runtime", 0,
                                                    BothRows("evals.lookup.runtime", 0))>>]

(* verifier.rs 872-881 *)
finish(index, proof, tb) ==
    IF tb.pc # "finish" THEN tb ELSE Return(tb, Ok)

(* verifier.rs 872-881: the BatchEvaluationProof handed to the opener *)
BatchEvaluationProof(proof, tb) ==
    [sponge |-> tb.fq_sponge, evaluations |-> tb.evaluations,
     evaluation_points |-> <<"zeta", "zeta_omega">>,
     polyscale |-> "v", evalscale |-> "u", opening |-> proof.opening]

(* verifier.rs 437-882: to_batch as a function of (index, proof) *)
to_batch(index, proof) ==
    LET s1 == check_prev_challenges(index, proof, to_batch_entry)
        s2 == public_input(index, proof, s1)
        s3 == oracles_absorb(index, proof, s2)
        s4 == oracles_lookup(index, proof, s3)
        s5 == oracles_beta(index, proof, s4)
        s6 == oracles_t(index, proof, s5)
        s7 == oracles_fr(index, proof, s6)
        s8 == oracles_ft(index, proof, s7)
        s9 == f_comm_terms(index, proof, f_comm(index, proof, s8))
        s10 == evaluations(index, proof, s9)
        s11 == lookup_evaluations(index, proof, s10)
    IN finish(index, proof, s11)

(* ---------------------------------------------------------------------- *)
(* The evaluation records absorbed by FrSponge::absorb_evaluations         *)
(* ---------------------------------------------------------------------- *)

(* a Vec<Fr> of c chunks *)
Vec(name, k, row, c) ==
    (* chunk j of the evaluations of polynomial name[k] contained in record row *)
    LET Scalar(j) == [name |-> name, k |-> k, row |-> row, j |-> j]
    IN [j \in 1..c |-> Scalar(j - 1)]

(* Option<LookupEvaluations> of a record *)
NoLookupEvaluations ==
    [present |-> FALSE, aggreg |-> <<>>, table |-> <<>>, sorted |-> <<>>,
     runtime |-> [present |-> FALSE, v |-> <<>>]]
(* ProofEvaluations::transpose: every field becomes the array of its values *)
(* in the records, in the order of the records                              *)
transpose(e) ==
    [z |-> <<e[1].z, e[2].z>>,
     generic_selector |-> <<e[1].generic_selector, e[2].generic_selector>>,
     poseidon_selector |-> <<e[1].poseidon_selector, e[2].poseidon_selector>>,
     w |-> [k \in 1..COLUMNS |-> <<e[1].w[k], e[2].w[k]>>],
     s |-> [k \in 1..(PERMUTS - 1) |-> <<e[1].s[k], e[2].s[k]>>],
     lookup |->
        IF ~e[1].lookup.present THEN NoLookupEvaluations
        ELSE [present |-> TRUE,
              aggreg |-> <<e[1].lookup.aggreg, e[2].lookup.aggreg>>,
              table |-> <<e[1].lookup.table, e[2].lookup.table>>,
              sorted |-> [k \in 1..Len(e[1].lookup.sorted) |->
                             <<e[1].lookup.sorted[k], e[2].lookup.sorted[k]>>],
              runtime |-> IF e[1].lookup.runtime.present
                          THEN [present |-> TRUE,
                                v |-> <<e[1].lookup.runtime.v, e[2].lookup.runtime.v>>]
                          ELSE [present |-> FALSE, v |-> <<>>]]]

absorb_evaluations_idle ==
    [pc |-> "idle", e |-> <<>>, last_squeezed |-> <<>>, points |-> <<>>, absorbed |-> <<>>]

(* ---------------------------------------------------------------------- *)
(* The scalar field and the evaluation domain of the index                 *)
(* ---------------------------------------------------------------------- *)

(* G::ScalarField, by a prime field small enough to enumerate *)
P == 17
FAdd(a, b) == (a + b) % P
FSub(a, b) == (a + P - b) % P
FNeg(a) == (P - a) % P
FMul(a, b) == (a * b) % P
RECURSIVE FPow(_, _)
FPow(a, e) == IF e = 0 THEN 1 ELSE FMul(a, FPow(a, e - 1))
(* Field::inverse; batch_inversion inverts every element of its argument *)
FInv(a) == FPow(a, P - 2)
RECURSIVE FSum(_)
FSum(xs) == IF xs = <<>> THEN 0 ELSE FAdd(Head(xs), FSum(Tail(xs)))
(* fold(init, |x, y| x * y) *)
RECURSIVE FProd(_, _)
FProd(init, xs) == IF xs = <<>> THEN init ELSE FProd(FMul(init, Head(xs)), Tail(xs))

(* index.domain: the radix-2 domain d1 of size n with generator omega *)
DomainSize == 4
group_gen == 4
size_inv == FInv(DomainSize % P)
(* index.domain.elements().take(k) *)
elements(k) == [j \in 1..k |-> FPow(group_gen, j - 1)]
D1 == {FPow(group_gen, j) : j \in 0..(DomainSize - 1)}

(* variant of public_evals: the terms of the sums are not negated *)
public_evals_not_negated(public, zeta) ==
    LET k == Len(public)
        w == elements(k)
        zetaw == FMul(zeta, group_gen)
        zeta_minus_x == [j \in 1..(2 * k) |->
                            IF j <= k THEN FInv(FSub(zeta, w[j]))
                                      ELSE FInv(FSub(zetaw, w[j - k]))]
    IN IF k = 0 THEN <<(<<0>>), (<<0>>)>>
       ELSE <<(<<FMul(FMul(FSum([j \in 1..k |->
                                   FMul(FMul(zeta_minus_x[j], public[j]), w[j])]),
                           FSub(FPow(zeta, DomainSize), 1)),
                      size_inv)>>),
              (<<FMul(FMul(FSum([j \in 1..k |->
                                   FMul(FMul(zeta_minus_x[k + j], public[j]), w[j])]),
                           size_inv),
                      FSub(FPow(zetaw, DomainSize), 1))>>)>>

(* verifier.rs 207-248: the negated public polynomial at zeta and zeta*omega *)
public_evals(public, zeta) ==
    LET k == Len(public)
        w == elements(k)
        zetaw == FMul(zeta, group_gen)
        zeta_minus_x == [j \in 1..(2 * k) |->
                            IF j <= k THEN FInv(FSub(zeta, w[j]))
                                      ELSE FInv(FSub(zetaw, w[j - k]))]
    IN IF k = 0 THEN <<(<<0>>), (<<0>>)>>
       ELSE <<(<<FMul(FMul(FSum([j \in 1..k |->
                                   FMul(FMul(FNeg(zeta_minus_x[j]), public[j]), w[j])]),
                           FSub(FPow(zeta, DomainSize), 1)),
                      size_inv)>>),
              (<<FMul(FMul(FSum([j \in 1..k |->
                                   FMul(FMul(FNeg(zeta_minus_x[k + j]), public[j]), w[j])]),
                           size_inv),
                      FSub(FPow(zetaw, DomainSize), 1))>>)>>

(* index.w(), the point of the domain the zero-knowledge correction uses *)
index_w == group_gen
(* index.shift: the PERMUTS coordinate shifts *)
shift == <<1, 3, 5, 6, 7, 10, 11>>

(* verifier.rs 302-307: the factors of the permutation product *)
perm_terms(x) ==
    LET w == x.evals[1].w
        s == x.evals[1].s
    IN [j \in 1..Min(Len(w), Len(s)) |->
           FAdd(FAdd(FMul(x.beta, s[j]), w[j]), x.gamma)]

(* verifier.rs 315-319: the factors of the subtracted product *)
minus_terms(x) ==
    LET w == x.evals[1].w
    IN [j \in 1..Min(Len(w), Len(shift)) |->
           FAdd(FAdd(x.gamma, FMul(FMul(x.beta, x.zeta), shift[j])), w[j])]

(* variant of ft_eval0: the subtracted product starts from z at zeta*omega *)
ft_eval0_z_omega(x, pub) ==
    LET alpha0 == x.alphas[1]
        alpha1 == x.alphas[2]
        alpha2 == x.alphas[3]
        zeta1m1 == FSub(FPow(x.zeta, DomainSize), 1)
        init == FMul(FMul(FMul(FAdd(x.evals[1].w[PERMUTS], x.gamma), x.evals[2].z),
                          alpha0), x.zkp)
        perm == FProd(init, perm_terms(x))
        minus == FProd(FMul(FMul(alpha0, x.zkp), x.evals[2].z), minus_terms(x))
        numerator == FMul(FAdd(FMul(FMul(zeta1m1, alpha1), FSub(x.zeta, index_w)),
                               FMul(FMul(zeta1m1, alpha2), FSub(x.zeta, 1))),
                          FSub(1, x.evals[1].z))
        denominator == FInv(FMul(FSub(x.zeta, index_w), FSub(x.zeta, 1)))
    IN FSub(FAdd(FSub(FSub(perm, IF pub[1] = <<>> THEN 0 ELSE pub[1][1]), minus),
                 FMul(numerator, denominator)),
            x.constant_term)

(* verifier.rs 283-349: ft_eval0 *)
ft_eval0(x, pub) ==
    LET alpha0 == x.alphas[1]
        alpha1 == x.alphas[2]
        alpha2 == x.alphas[3]
        zeta1m1 == FSub(FPow(x.zeta, DomainSize), 1)
        init == FMul(FMul(FMul(FAdd(x.evals[1].w[PERMUTS], x.gamma), x.evals[2].z),
                          alpha0), x.zkp)
        perm == FProd(init, perm_terms(x))
        minus == FProd(FMul(FMul(alpha0, x.zkp), x.evals[1].z), minus_terms(x))
        numerator == FMul(FAdd(FMul(FMul(zeta1m1, alpha1), FSub(x.zeta, index_w)),
                               FMul(FMul(zeta1m1, alpha2), FSub(x.zeta, 1))),
                          FSub(1, x.evals[1].z))
        denominator == FInv(FMul(FSub(x.zeta, index_w), FSub(x.zeta, 1)))
    IN FSub(FAdd(FSub(FSub(perm, IF pub[1] = <<>> THEN 0 ELSE pub[1][1]), minus),
                 FMul(numerator, denominator)),
            x.constant_term)

oracles_evals_idle ==
    [pc |-> "idle", public |-> <<>>, x |-> <<>>, public_evals |-> <<>>,
     perm_terms |-> <<>>, minus_terms |-> <<>>, ft_eval0 |-> 0]

(* ---------------------------------------------------------------------- *)
(* The constraint system of circuits/plonk                                 *)
(* ---------------------------------------------------------------------- *)

(* the field F of the constraint system, by a prime field whose largest    *)
(* radix-2 subgroup has four elements                                      *)
Q == 13
CMul(a, b) == (a * b) % Q
RECURSIVE CPow(_, _)
CPow(a, e) == IF e = 0 THEN 1 ELSE CMul(a, CPow(a, e - 1))
(* r.legendre().is_qnr() *)
is_qnr(a) == a # 0 /\ CPow(a, (Q - 1) \div 2) = Q - 1

(* the largest radix-2 domain of F *)
MaxDomainSize == 4
RECURSIVE NextPow2(_, _)
NextPow2(m, k) == IF m >= k THEN m ELSE NextPow2(2 * m, k)
(* EvaluationDomains::create: the size of d1, or 0 for None *)
domains_create(k) == IF k > MaxDomainSize THEN 0 ELSE NextPow2(1, k)
(* the generator of the domain of size n *)
d1_group_gen(n) == CPow(5, MaxDomainSize \div n)
(* domain.d1.elements() *)
d1_elements(n) == [j \in 1..n |-> CPow(d1_group_gen(n), j - 1)]
(* the elements sample_element_outside_domain can return *)
OutsideDomain(n) == (0..(Q - 1)) \ {d1_elements(n)[j] : j \in 1..n}

(* CircuitGate: its kind and its three wires (local position, wired to) *)
Gate(typ, l, r, o) == [typ |-> typ, l |-> l, r |-> r, o |-> o]
(* CircuitGate::zero *)
zero(l, r, o) == Gate("Zero", l, r, o)
GateLists ==
    (* the gate lists: every list of kinds up to the largest domain, and the   *)
    (* longer lists of Generic gates                                           *)
    LET GateTypes == {"Zero", "Generic", "Poseidon"}
        GateKindLists ==
            UNION {[1..k -> GateTypes] : k \in 0..MaxDomainSize}
            \cup {[j \in 1..k |-> "Generic"] : k \in (MaxDomainSize + 1)..MaxGates}
        (* The wirings, over the positions of the k gates of the list in a  *)
        (* domain of size n: the identity, the left wires of gates 0 and 1  *)
        (* exchanged, the three wires of gate 0 in a cycle, and every left  *)
        (* wire connected to position 0 (not a permutation)                 *)
        Wirings == {"identity", "swap", "cycle", "collapse"}
        WiredTo(wiring, k, n, pos) ==
            CASE wiring = "swap" /\ k >= 2 /\ pos \in {0, 1} -> 1 - pos
              [] wiring = "cycle" /\ k >= 1 /\ pos \in {0, n, 2 * n} -> (pos + n) % (3 * n)
              [] wiring = "collapse" /\ pos < n -> 0
              [] OTHER -> pos
        (* a list of gates of the given kinds; gate j has the wires of row j *)
        MkGates(types, wiring, n) ==
            LET k == Len(types)
                W(pos) == <<pos, WiredTo(wiring, k, n, pos)>>
            IN [j \in 1..k |-> Gate(types[j], W(j - 1), W(n + j - 1), W(2 * n + j - 1))]
    IN {MkGates(types, wiring, NextPow2(1, Len(types))) :
            types \in GateKindLists, wiring \in Wirings}

(* variant of padding: the three wires of a padding gate are in the left   *)
(* column                                                                   *)
padding_left_column(gates, n) ==
    [j \in 1..(n - Len(gates)) |->
        LET g == Len(gates) + j - 1
        IN zero(<<g, g>>, <<g, g>>, <<g, g>>)]

(* constraints.rs 98-100: the padding with Zero gates *)
padding(gates, n) ==
    [j \in 1..(n - Len(gates)) |->
        LET g == Len(gates) + j - 1
        IN zero(<<g, g>>, <<n + g, n + g>>, <<2 * n + g, 2 * n + g>>)]

(* constraints.rs 102-107: the identity permutation on the three cosets *)
s_of(n, r, o) ==
    <<d1_elements(n),
      [j \in 1..n |-> CMul(r, d1_elements(n)[j])],
      [j \in 1..n |-> CMul(o, d1_elements(n)[j])]>>

(* variant of sigma_gate: the Zero gates are written like the others *)
sigma_gate_zero_too(sigmal1, s, gate, n) ==
    [sigmal1 EXCEPT
        ![1][gate.l[1] + 1] = s[(gate.l[2] \div n) + 1][(gate.l[2] % n) + 1],
        ![2][gate.r[1] - n + 1] = s[(gate.r[2] \div n) + 1][(gate.r[2] % n) + 1],
        ![3][gate.o[1] - 2 * n + 1] = s[(gate.o[2] \div n) + 1][(gate.o[2] % n) + 1]]

(* constraints.rs 109-119: one gate's wires written into sigmal1, the Zero  *)
(* gates filtered out                                                       *)
sigma_gate(sigmal1, s, gate, n) ==
    IF gate.typ = "Zero" THEN sigmal1
    ELSE [sigmal1 EXCEPT
             ![1][gate.l[1] + 1] = s[(gate.l[2] \div n) + 1][(gate.l[2] % n) + 1],
             ![2][gate.r[1] - n + 1] = s[(gate.r[2] \div n) + 1][(gate.r[2] % n) + 1],
             ![3][gate.o[1] - 2 * n + 1] = s[(gate.o[2] \div n) + 1][(gate.o[2] % n) + 1]]

(* constraints.rs 108-120: for_each over the gates, in list order *)
RECURSIVE sigmal1_of(_, _, _, _)
sigmal1_of(sigmal1, s, gates, n) ==
    IF gates = <<>> THEN sigmal1
    ELSE sigmal1_of(sigma_gate(sigmal1, s, Head(gates), n), s, Tail(gates), n)

(* DensePolynomial::from_coefficients_vec: the zero coefficients at the end *)
(* of the vector are dropped                                                *)
from_coefficients_vec(coeffs) ==
    LET nz == {k \in DOMAIN coeffs : coeffs[k] # 0}
    IN IF nz = {} THEN <<>>
       ELSE SubSeq(coeffs, 1, CHOOSE k \in nz : \A j \in nz : j <= k)

(* variant of cs_shift: coefficient i is multiplied by sid[i + 1] *)
cs_shift_next_sid(sid, poly) ==
    from_coefficients_vec(
        [k \in 1..(IF Len(poly) < Len(sid) - 1 THEN Len(poly) ELSE Len(sid) - 1) |->
            CMul(poly[k], sid[k + 1])])

(* constraints.rs 213-218: ConstraintSystem::shift, the coefficients zipped *)
(* with sid                                                                 *)
cs_shift(sid, poly) ==
    from_coefficients_vec(
        [k \in 1..(IF Len(poly) < Len(sid) THEN Len(poly) ELSE Len(sid)) |->
            CMul(poly[k], sid[k])])

create_idle ==
    [pc |-> "idle", input |-> <<>>, public |-> 0, n |-> 0,
     gates |-> <<>>, sid |-> <<>>, r |-> 0, o |-> 0, sigmal1 |-> <<>>,
     poly |-> <<>>, shifted |-> <<>>]

(* CircuitGate::verify: the identity of the gate's kind on the witness, by  *)
(* one identity on the gate's own row (Generic: l + r = o), one that reads  *)
(* the row of the next gate (Poseidon: o = l of the next row) and the       *)
(* identity of the Zero gate, which holds                                   *)
gate_verify(gate, witness, next) ==
    CASE gate.typ = "Generic" ->
            (witness[gate.l[1] + 1] + witness[gate.r[1] + 1]) % Q = witness[gate.o[1] + 1]
      [] gate.typ = "Poseidon" -> witness[gate.o[1] + 1] = witness[next.l[1] + 1]
      [] OTHER -> TRUE

verify_idle ==
    [pc |-> "idle", gates |-> <<>>, public |-> 0, n |-> 0,
     witness |-> <<>>, i |-> 0, checked |-> {}, read |-> {}]

(* ---------------------------------------------------------------------- *)
(* oracle/src/utils.rs, over the field of the constraint system            *)
(* ---------------------------------------------------------------------- *)

(* variant of evals_shift: a rotation to the right *)
evals_shift_right(evals, len) ==
    IF Len(evals) = 0 THEN "panic"
    ELSE LET l == len % Len(evals)
         IN SubSeq(evals, Len(evals) - l + 1, Len(evals))
              \o SubSeq(evals, 1, Len(evals) - l)

(* utils.rs 50-58: EvalUtils::shift; len % 0 panics *)
evals_shift(evals, len) ==
    IF Len(evals) = 0 THEN "panic"
    ELSE LET l == len % Len(evals)
             tail == SubSeq(evals, 1, l)
         IN SubSeq(evals, l + 1, Len(evals)) \o tail

(* utils.rs 62-69: PolyUtils::eval_polynomial, from the last coefficient    *)
(* to the first: res = res * x + c                                          *)
RECURSIVE eval_polynomial(_, _)
eval_polynomial(coeffs, x) ==
    IF coeffs = <<>> THEN 0
    ELSE (CMul(eval_polynomial(Tail(coeffs), x), x) + Head(coeffs)) % Q

(* variant of eval: the coefficients after the last whole chunk are left out *)
eval_whole_chunks(coeffs, elm, size) ==
    IF size = 0 THEN "panic"
    ELSE LET starts == {j \in 0..(Len(coeffs) - 1) : j % size = 0 /\ j + size <= Len(coeffs)}
             evaluate(p) == eval_polynomial(from_coefficients_vec(p), elm)
         IN [k \in 1..Cardinality(starts) |->
                LET j == (k - 1) * size
                    end == IF j + size > Len(coeffs) THEN Len(coeffs) ELSE j + size
                IN evaluate(SubSeq(coeffs, j + 1, end))]

(* utils.rs 86-97: PolyUtils::eval, a value for every chunk of `size`      *)
(* coefficients; step_by(0) panics                                          *)
eval(coeffs, elm, size) ==
    IF size = 0 THEN "panic"
    ELSE LET starts == {j \in 0..(Len(coeffs) - 1) : j % size = 0}
             evaluate(p) == eval_polynomial(from_coefficients_vec(p), elm)
         IN [k \in 1..Cardinality(starts) |->
                LET j == (k - 1) * size
                    end == IF j + size > Len(coeffs) THEN Len(coeffs) ELSE j + size
                IN evaluate(SubSeq(coeffs, j + 1, end))]

(* ---------------------------------------------------------------------- *)
(* State                                                                   *)
(*   proofs       : the argument of batch_verify, a list of (index, proof) *)
(*   pc           : position in batch_verify                               *)
(*   i            : loop counter of the loop pc is in                      *)
(*   srs_checked  : number of indices whose SRS was checked                *)
(*   runs         : the results of the to_batch calls made, in call order  *)
(*   batch        : the BatchEvaluationProofs collected                    *)
(*   opener_calls : the batches passed to srs.verify, in call order        *)
(*   result       : the value returned by batch_verify                     *)
(*   tb           : local state of a to_batch call followed block by block *)
(*   ae           : local state of an absorb_evaluations call              *)
(*   oe           : local state of the evaluations computed by oracles     *)
(*   cs           : local state of a ConstraintSystem::create call          *)
(*   vf           : local state of a ConstraintSystem::verify call          *)
(*   fs           : a DefaultFrSponge                                       *)
(*   ut           : local state of a call of a function of PolyUtils or     *)
(*                  EvalUtils                                               *)
(* ---------------------------------------------------------------------- *)
VARIABLES proofs, pc, i, srs_checked, runs, batch, opener_calls, result, tb, ae, oe, cs, vf, fs, ut

vars == <<proofs, pc, i, srs_checked, runs, batch, opener_calls, result, tb, ae, oe, cs, vf, fs, ut>>

(* variant of srs_check: the two checks in the other order *)
srs_check_size_first(index, srs) ==
    IF index.srs.max_degree < index.domain_size THEN SRSTooSmall
    ELSE IF index.srs.g_len # srs.g_len THEN DifferentSRS
    ELSE Ok

(* verifier.rs 936-946: the checks made on one index of the batch, against  *)
(* the SRS of the first index                                               *)
srs_check(index, srs) ==
    IF index.srs.g_len # srs.g_len THEN DifferentSRS
    ELSE IF index.srs.max_degree < index.domain_size THEN SRSTooSmall
    ELSE Ok

(* the opener srs.verify: accepts a batch when every opening is accepted *)
srs_verify(b) == \A k \in DOMAIN b : b[k].opening = "valid"

(* variant of batch_verify_start: no early return on the empty batch *)
batch_verify_start_no_return ==
    /\ pc = "start"
    /\ result' = result
    /\ pc' = IF proofs = <<>> THEN "open" ELSE "srs"
    /\ UNCHANGED <<proofs, i, srs_checked, runs, batch, opener_calls, tb, ae, oe, cs, vf, fs, ut>>

(* verifier.rs 929-936 *)
batch_verify_start ==
    /\ pc = "start"
    /\ IF proofs = <<>>
       THEN /\ result' = Ok
            /\ pc' = "done"
       ELSE /\ result' = result
            /\ pc' = "srs"
    /\ UNCHANGED <<proofs, i, srs_checked, runs, batch, opener_calls, tb, ae, oe, cs, vf, fs, ut>>

(* variant of batch_verify_srs: the first index, whose SRS is the reference, *)
(* is not checked                                                           *)
batch_verify_srs_skip_first ==
    /\ pc = "srs"
    /\ LET r == IF i = 1 THEN Ok ELSE srs_check(proofs[i].index, proofs[1].index.srs)
       IN IF r # Ok
          THEN /\ result' = r
               /\ pc' = "done"
               /\ i' = i
          ELSE /\ result' = result
               /\ pc' = IF i = Len(proofs) THEN "to_batch" ELSE "srs"
               /\ i' = IF i = Len(proofs) THEN 1 ELSE i + 1
    /\ srs_checked' = srs_checked + 1
    /\ UNCHANGED <<proofs, runs, batch, opener_calls, tb, ae, oe, cs, vf, fs, ut>>

(* verifier.rs 937-946: one iteration of the SRS loop *)
batch_verify_srs ==
    /\ pc = "srs"
    /\ LET r == srs_check(proofs[i].index, proofs[1].index.srs)
       IN IF r # Ok
          THEN /\ result' = r
               /\ pc' = "done"
               /\ i' = i
          ELSE /\ result' = result
               /\ pc' = IF i = Len(proofs) THEN "to_batch" ELSE "srs"
               /\ i' = IF i = Len(proofs) THEN 1 ELSE i + 1
    /\ srs_checked' = srs_checked + 1
    /\ UNCHANGED <<proofs, runs, batch, opener_calls, tb, ae, oe, cs, vf, fs, ut>>

(* variant of batch_verify_to_batch: an error is kept and the loop goes on,  *)
(* the last error being returned after the loop                             *)
batch_verify_to_batch_last_error ==
    /\ pc = "to_batch"
    /\ LET r == to_batch(proofs[i].index, proofs[i].proof)
           res == IF r.res # Ok THEN r.res ELSE result
       IN /\ runs' = Append(runs, r.res)
          /\ batch' = IF r.res # Ok THEN batch
                      ELSE Append(batch, BatchEvaluationProof(proofs[i].proof, r))
          /\ result' = res
          /\ pc' = IF i < Len(proofs) THEN "to_batch"
                   ELSE IF res # Pending THEN "done" ELSE "open"
          /\ i' = IF i = Len(proofs) THEN i ELSE i + 1
    /\ UNCHANGED <<proofs, srs_checked, opener_calls, tb, ae, oe, cs, vf, fs, ut>>

(* variant of batch_verify_to_batch: a proof whose to_batch fails is left    *)
(* out of the batch                                                         *)
batch_verify_to_batch_filter ==
    /\ pc = "to_batch"
    /\ LET r == to_batch(proofs[i].index, proofs[i].proof)
       IN /\ runs' = Append(runs, r.res)
          /\ batch' = IF r.res # Ok THEN batch
                      ELSE Append(batch, BatchEvaluationProof(proofs[i].proof, r))
          /\ result' = result
          /\ pc' = IF i = Len(proofs) THEN "open" ELSE "to_batch"
          /\ i' = IF i = Len(proofs) THEN i ELSE i + 1
    /\ UNCHANGED <<proofs, srs_checked, opener_calls, tb, ae, oe, cs, vf, fs, ut>>

(* verifier.rs 949-952: one iteration of the to_batch loop *)
batch_verify_to_batch ==
    /\ pc = "to_batch"
    /\ LET r == to_batch(proofs[i].index, proofs[i].proof)
       IN /\ runs' = Append(runs, r.res)
          /\ IF r.res # Ok
             THEN /\ result' = r.res
                  /\ pc' = "done"
                  /\ i' = i
                  /\ batch' = batch
             ELSE /\ result' = result
                  /\ batch' = Append(batch, BatchEvaluationProof(proofs[i].proof, r))
                  /\ pc' = IF i = Len(proofs) THEN "open" ELSE "to_batch"
                  /\ i' = IF i = Len(proofs) THEN i ELSE i + 1
    /\ UNCHANGED <<proofs, srs_checked, opener_calls, tb, ae, oe, cs, vf, fs, ut>>

(* variant of batch_verify_open: the answer of the opener is dropped *)
batch_verify_open_ignored ==
    /\ pc = "open"
    /\ opener_calls' = Append(opener_calls, batch)
    /\ result' = Ok
    /\ pc' = "done"
    /\ UNCHANGED <<proofs, i, srs_checked, runs, batch, tb, ae, oe, cs, vf, fs, ut>>

(* verifier.rs 954-959 *)
batch_verify_open ==
    /\ pc = "open"
    /\ opener_calls' = Append(opener_calls, batch)
    /\ result' = IF srs_verify(batch) THEN Ok ELSE OpenProof
    /\ pc' = "done"
    /\ UNCHANGED <<proofs, i, srs_checked, runs, batch, tb, ae, oe, cs, vf, fs, ut>>

Init ==
    LET BatchPairs ==
            LET BatchProofs ==
                    {MkProof(0, 0, NoLookup, PERMUTS, NoLookup, NoLookup, "valid"),
                     MkProof(0, 0, NoLookup, PERMUTS, NoLookup, NoLookup, "invalid"),
                     MkProof(1, 0, NoLookup, PERMUTS, NoLookup, NoLookup, "valid"),
                     MkProof(0, 0, NoLookup, PERMUTS + 1, NoLookup, NoLookup, "valid")}
            IN
                (* the pairs batched together by batch_verify: SRS of two lengths, domains  *)
                (* of two sizes, proofs that pass, fail in to_batch or fail in the opener   *)
                LET BatchIndexes ==
                        (* the SRS of an index, by the two quantities batch_verify reads from it *)
                        LET SrsSet == {[g_len |-> 2, max_degree |-> 2], [g_len |-> 4, max_degree |-> 4]}
                        IN
                            {MkIndex(srs, d, 0, 0, NoLookupIndex) : srs \in SrsSet, d \in {2, 4}}
                IN
                              {[index |-> ix, proof |-> pf] : ix \in BatchIndexes, pf \in BatchProofs}
    IN
        /\ proofs \in SeqsUpTo(BatchPairs, MaxBatch)
        /\ pc = "start"
        /\ i = 1
        /\ srs_checked = 0
        /\ runs = <<>>
        /\ batch = <<>>
        /\ opener_calls = <<>>
        /\ result = Pending
        /\ tb = to_batch_entry
        /\ ae = absorb_evaluations_idle
        /\ oe = oracles_evals_idle
        /\ cs = create_idle
        /\ vf = verify_idle
        /\ fs = <<>>
        /\ ut = <<>>

Next ==
    \/ batch_verify_start
    \/ batch_verify_srs
    \/ batch_verify_to_batch
    \/ batch_verify_open

Spec == Init /\ [][Next]_vars

(* ---------------------------------------------------------------------- *)
(* One to_batch call followed block by block: verify(index, proof) at the  *)
(* call of to_batch, the SRS of the index having been checked              *)
(* ---------------------------------------------------------------------- *)
ToBatchFrame ==
    UNCHANGED <<proofs, pc, i, srs_checked, runs, batch, opener_calls, result, ae, oe, cs, vf, fs, ut>>

to_batch_check_prev ==
    /\ pc = "to_batch"
    /\ tb.pc = "check_prev"
    /\ tb' = check_prev_challenges(proofs[i].index, proofs[i].proof, tb)
    /\ ToBatchFrame

to_batch_public_input ==
    /\ pc = "to_batch"
    /\ tb.pc = "public_input"
    /\ tb' = public_input(proofs[i].index, proofs[i].proof, tb)
    /\ ToBatchFrame

to_batch_oracles_absorb ==
    /\ pc = "to_batch"
    /\ tb.pc = "oracles"
    /\ tb' = oracles_absorb(proofs[i].index, proofs[i].proof, tb)
    /\ ToBatchFrame

to_batch_oracles_lookup ==
    /\ pc = "to_batch"
    /\ tb.pc = "oracles_lookup"
    /\ tb' = oracles_lookup(proofs[i].index, proofs[i].proof, tb)
    /\ ToBatchFrame

to_batch_oracles_beta ==
    /\ pc = "to_batch"
    /\ tb.pc = "oracles_beta"
    /\ tb' = oracles_beta(proofs[i].index, proofs[i].proof, tb)
    /\ ToBatchFrame

to_batch_oracles_t ==
    /\ pc = "to_batch"
    /\ tb.pc = "oracles_t"
    /\ tb' = oracles_t(proofs[i].index, proofs[i].proof, tb)
    /\ ToBatchFrame

to_batch_oracles_fr ==
    /\ pc = "to_batch"
    /\ tb.pc = "oracles_fr"
    /\ tb' = oracles_fr(proofs[i].index, proofs[i].proof, tb)
    /\ ToBatchFrame

to_batch_oracles_ft ==
    /\ pc = "to_batch"
    /\ tb.pc = "oracles_ft"
    /\ tb' = oracles_ft(proofs[i].index, proofs[i].proof, tb)
    /\ ToBatchFrame

to_batch_f_comm ==
    /\ pc = "to_batch"
    /\ tb.pc = "f_comm"
    /\ tb' = f_comm(proofs[i].index, proofs[i].proof, tb)
    /\ ToBatchFrame

to_batch_f_comm_term ==
    /\ pc = "to_batch"
    /\ tb.pc = "f_comm_terms"
    /\ tb' = f_comm_term(proofs[i].index, proofs[i].proof, tb)
    /\ ToBatchFrame

to_batch_evaluations ==
    /\ pc = "to_batch"
    /\ tb.pc = "evaluations"
    /\ tb' = evaluations(proofs[i].index, proofs[i].proof, tb)
    /\ ToBatchFrame

to_batch_lookup_evaluations ==
    /\ pc = "to_batch"
    /\ tb.pc = "lookup_evaluations"
    /\ tb' = lookup_evaluations(proofs[i].index, proofs[i].proof, tb)
    /\ ToBatchFrame

to_batch_finish ==
    /\ pc = "to_batch"
    /\ tb.pc = "finish"
    /\ tb' = finish(proofs[i].index, proofs[i].proof, tb)
    /\ ToBatchFrame

InitToBatch ==
    LET Pairs ==
            LET Proofs ==
                    LET TLens == {PERMUTS - 1, PERMUTS, PERMUTS + 1}
                    IN
                        {MkProof(x[1], x[2], x[3], x[4], x[5], x[6], "valid") :
                            x \in (0..MaxPrev) \X (0..MaxPublic) \X Lookups \X TLens \X Lookups \X Lookups}
            IN
                (* every shape of (index, proof) handed to a single to_batch call *)
                LET Indexes ==
                        LET LookupIndexes ==
                                {NoLookupIndex} \cup
                                [present : {TRUE}, runtime_tables_selector : BOOLEAN, joint : BOOLEAN]
                        IN
                            {MkIndex([g_len |-> 4, max_degree |-> 4], 4, prev, pub, li) :
                                prev \in 0..MaxPrev, pub \in 0..MaxPublic, li \in LookupIndexes}
                IN
                         {[index |-> ix, proof |-> pf] : ix \in Indexes, pf \in Proofs}
    IN
        /\ proofs \in {<<p>> : p \in Pairs}
        /\ pc = "to_batch"
        /\ i = 1
        /\ srs_checked = 1
        /\ runs = <<>>
        /\ batch = <<>>
        /\ opener_calls = <<>>
        /\ result = Pending
        /\ tb = to_batch_entry
        /\ ae = absorb_evaluations_idle
        /\ oe = oracles_evals_idle
        /\ cs = create_idle
        /\ vf = verify_idle
        /\ fs = <<>>
        /\ ut = <<>>

NextToBatch ==
    \/ to_batch_check_prev
    \/ to_batch_public_input
    \/ to_batch_oracles_absorb
    \/ to_batch_oracles_lookup
    \/ to_batch_oracles_beta
    \/ to_batch_oracles_t
    \/ to_batch_oracles_fr
    \/ to_batch_oracles_ft
    \/ to_batch_f_comm
    \/ to_batch_f_comm_term
    \/ to_batch_evaluations
    \/ to_batch_lookup_evaluations
    \/ to_batch_finish

SpecToBatch == InitToBatch /\ [][NextToBatch]_vars

(* ---------------------------------------------------------------------- *)
(* FrSponge::absorb_evaluations followed step by step                      *)
(* ---------------------------------------------------------------------- *)
AbsorbEvaluationsFrame ==
    UNCHANGED <<proofs, pc, i, srs_checked, runs, batch, opener_calls, result, tb, oe, cs, vf, fs, ut>>

(* plonk_sponge.rs 60-89: last_squeezed is cleared, the records are         *)
(* transposed and the polynomials every proof has are listed                *)
absorb_evaluations_begin ==
    /\ pc = "absorb_evaluations" /\ ae.pc = "begin"
    /\ LET e == transpose(ae.e)
       IN ae' = [ae EXCEPT !.pc = "lookup",
                           !.last_squeezed = <<>>,
                           !.points = <<e.z, e.generic_selector, e.poseidon_selector>>
                                      \o e.w \o e.s]
    /\ AbsorbEvaluationsFrame

(* variant of absorb_evaluations_lookup: the table before the aggregation *)
absorb_evaluations_lookup_table_first ==
    /\ pc = "absorb_evaluations" /\ ae.pc = "lookup"
    /\ LET l == transpose(ae.e).lookup
       IN ae' = [ae EXCEPT !.pc = "absorb",
                           !.points = IF l.present
                                      THEN @ \o <<l.table, l.aggreg>> \o l.sorted
                                             \o (IF l.runtime.present
                                                   THEN <<l.runtime.v>> ELSE <<>>)
                                      ELSE @]
    /\ AbsorbEvaluationsFrame

(* plonk_sponge.rs 91-98: the polynomials of the lookup block, if any *)
absorb_evaluations_lookup ==
    /\ pc = "absorb_evaluations" /\ ae.pc = "lookup"
    /\ LET l == transpose(ae.e).lookup
       IN ae' = [ae EXCEPT !.pc = "absorb",
                           !.points = IF l.present
                                      THEN @ \o <<l.aggreg, l.table>> \o l.sorted
                                             \o (IF l.runtime.present
                                                   THEN <<l.runtime.v>> ELSE <<>>)
                                      ELSE @]
    /\ AbsorbEvaluationsFrame

(* plonk_sponge.rs 100-104: one turn of the outer loop, the inner loop      *)
(* absorbs the evaluations of the polynomial in each record                 *)
absorb_evaluations_absorb ==
    /\ pc = "absorb_evaluations" /\ ae.pc = "absorb"
    /\ LET p == Head(ae.points)
       IN ae' = [ae EXCEPT !.pc = IF Len(ae.points) = 1 THEN "done" ELSE "absorb",
                           !.points = Tail(ae.points),
                           !.absorbed = @ \o p[1] \o p[2]]
    /\ AbsorbEvaluationsFrame

InitAbsorbEvaluations ==
    (* ProofEvaluations<Vec<Fr>>: record number row, of c chunks a polynomial *)
    LET MkEvals(row, c, lk) ==
            LET MkLookupEvaluations ==
                    IF ~lk.present THEN NoLookupEvaluations
                    ELSE [present |-> TRUE,
                          aggreg |-> Vec("lookup.aggreg", 0, row, c),
                          table |-> Vec("lookup.table", 0, row, c),
                          sorted |-> [k \in 1..lk.sorted |-> Vec("lookup.sorted", k - 1, row, c)],
                          runtime |-> IF lk.runtime
                                      THEN [present |-> TRUE, v |-> Vec("lookup.runtime", 0, row, c)]
                                      ELSE [present |-> FALSE, v |-> <<>>]]
            IN
                [z |-> Vec("z", 0, row, c),
                 generic_selector |-> Vec("generic_selector", 0, row, c),
                 poseidon_selector |-> Vec("poseidon_selector", 0, row, c),
                 w |-> [k \in 1..COLUMNS |-> Vec("w", k - 1, row, c)],
                 s |-> [k \in 1..(PERMUTS - 1) |-> Vec("s", k - 1, row, c)],
                 lookup |-> MkLookupEvaluations]
    IN
        (* The local state of one absorb_evaluations call                          *)
        (*   pc            : "idle", "begin", "lookup", "absorb" or "done"         *)
        (*   e             : the argument, two records                             *)
        (*   last_squeezed : the limbs left over from the last squeeze             *)
        (*   points        : the polynomials still to absorb                       *)
        (*   absorbed      : the scalars absorbed by the sponge, in order          *)
        LET absorb_evaluations_entry(e, limbs) ==
                [pc |-> "begin", e |-> e, last_squeezed |-> limbs, points |-> <<>>, absorbed |-> <<>>]
        IN
            (* the pairs of records given to absorb_evaluations: the two records have   *)
            (* the same lookup block, their polynomials any number of chunks            *)
            LET EvalPairs ==
                    {<<MkEvals(0, c0, lk), MkEvals(1, c1, lk)>> :
                        c0 \in 1..MaxChunks, c1 \in 1..MaxChunks, lk \in Lookups}
            IN
                /\ proofs = <<>>
                /\ pc = "absorb_evaluations"
                /\ i = 1
                /\ srs_checked = 0
                /\ runs = <<>>
                /\ batch = <<>>
                /\ opener_calls = <<>>
                /\ result = Pending
                /\ tb = to_batch_entry
                /\ ae \in {absorb_evaluations_entry(e, limbs) :
                              e \in EvalPairs, limbs \in {<<>>, <<"limb">>}}
                /\ oe = oracles_evals_idle
                /\ cs = create_idle
                /\ vf = verify_idle
                /\ fs = <<>>
                /\ ut = <<>>

NextAbsorbEvaluations ==
    \/ absorb_evaluations_begin
    \/ absorb_evaluations_lookup
    \/ absorb_evaluations_absorb

SpecAbsorbEvaluations == InitAbsorbEvaluations /\ [][NextAbsorbEvaluations]_vars

(* ---------------------------------------------------------------------- *)
(* The evaluations computed by oracles, followed step by step              *)
(* ---------------------------------------------------------------------- *)
OraclesEvalsFrame ==
    UNCHANGED <<proofs, pc, i, srs_checked, runs, batch, opener_calls, result, tb, ae, cs, vf, fs, ut>>

(* verifier.rs 207-248 *)
oracles_public_evals ==
    /\ pc = "oracles_evals" /\ oe.pc = "public_evals"
    /\ oe' = [oe EXCEPT !.pc = "ft_eval0",
                        !.public_evals = public_evals(oe.public, oe.x.zeta)]
    /\ OraclesEvalsFrame

(* verifier.rs 283-349 *)
oracles_ft_eval0 ==
    /\ pc = "oracles_evals" /\ oe.pc = "ft_eval0"
    /\ oe' = [oe EXCEPT !.pc = "done",
                        !.perm_terms = perm_terms(oe.x),
                        !.minus_terms = minus_terms(oe.x),
                        !.ft_eval0 = ft_eval0(oe.x, oe.public_evals)]
    /\ OraclesEvalsFrame

InitOraclesEvals ==
    (* The values oracles computes ft_eval0 from                               *)
    (*   zeta, beta, gamma : the challenges                                    *)
    (*   alphas      : the three powers of alpha of the permutation argument   *)
    (*   zkp         : index.zkpm().evaluate(zeta)                             *)
    (*   evals       : the two combined evaluation records (w, s, z)           *)
    (*   constant_term : the value of the linearization's constant term        *)
    LET MkEvalRow(seed, row) ==
            [w |-> [j \in 1..COLUMNS |-> (seed * j + row + 1) % P],
             s |-> [j \in 1..(PERMUTS - 1) |-> (seed + 2 * j + 3 * row) % P],
             z |-> (5 * seed + 7 * row + 2) % P]
    IN
        (* The local state of the evaluations computed by oracles                  *)
        (*   pc           : "idle", "public_evals", "ft_eval0" or "done"           *)
        (*   public       : self.public                                            *)
        (*   x            : the values ft_eval0 is computed from                   *)
        (*   public_evals : the two vectors of public evaluations                  *)
        (*   perm_terms, minus_terms : the factors multiplied into the products    *)
        (*   ft_eval0     : the value computed                                     *)
        LET oracles_evals_entry(public, x) ==
                [pc |-> "public_evals", public |-> public, x |-> x, public_evals |-> <<>>,
                 perm_terms |-> <<>>, minus_terms |-> <<>>, ft_eval0 |-> 0]
        IN
            (* the public inputs of a proof: at most one for every element of d1 *)
            LET Publics == UNION {[1..k -> 0..MaxPublicValue] : k \in 0..DomainSize}
            IN
                LET FtInputs ==
                        LET Fr == 0..(P - 1)
                        IN
                            {[zeta |-> zeta, beta |-> c[1], gamma |-> c[2],
                              alphas |-> <<c[3], FMul(c[3], c[3]), FMul(c[3], FMul(c[3], c[3]))>>,
                              zkp |-> c[4], evals |-> <<MkEvalRow(seed, 0), MkEvalRow(seed, 1)>>,
                              constant_term |-> c[5]] :
                                zeta \in Fr \ D1, seed \in 1..MaxSeed,
                                c \in {<<2, 5, 3, 1, 0>>, <<5, 3, 2, 6, 9>>}}
                IN
                    /\ proofs = <<>>
                    /\ pc = "oracles_evals"
                    /\ i = 1
                    /\ srs_checked = 0
                    /\ runs = <<>>
                    /\ batch = <<>>
                    /\ opener_calls = <<>>
                    /\ result = Pending
                    /\ tb = to_batch_entry
                    /\ ae = absorb_evaluations_idle
                    /\ oe \in {oracles_evals_entry(public, x) : public \in Publics, x \in FtInputs}
                    /\ cs = create_idle
                    /\ vf = verify_idle
                    /\ fs = <<>>
                    /\ ut = <<>>

NextOraclesEvals ==
    \/ oracles_public_evals
    \/ oracles_ft_eval0

SpecOraclesEvals == InitOraclesEvals /\ [][NextOraclesEvals]_vars

(* ---------------------------------------------------------------------- *)
(* ConstraintSystem::create followed step by step                          *)
(* ---------------------------------------------------------------------- *)
CreateFrame ==
    UNCHANGED <<proofs, pc, i, srs_checked, runs, batch, opener_calls, result, tb, ae, oe, vf, fs, ut>>

(* constraints.rs 81-82: the domains, None when there is none large enough *)
create_domains ==
    /\ pc = "create" /\ cs.pc = "domains"
    /\ LET n == domains_create(Len(cs.gates))
       IN cs' = IF n = 0 THEN [cs EXCEPT !.pc = "none"]
                ELSE [cs EXCEPT !.pc = "sample_r", !.n = n, !.sid = d1_elements(n)]
    /\ CreateFrame

(* constraints.rs 85-90: one sample of r, kept if a quadratic non-residue *)
create_sample_r ==
    /\ pc = "create" /\ cs.pc = "sample_r"
    /\ \E x \in OutsideDomain(cs.n) :
          cs' = [cs EXCEPT !.r = x,
                           !.pc = IF is_qnr(x) THEN "sample_o" ELSE "sample_r"]
    /\ CreateFrame

(* constraints.rs 91-96: one sample of o, kept if a quadratic non-residue   *)
(* other than r                                                             *)
create_sample_o ==
    /\ pc = "create" /\ cs.pc = "sample_o"
    /\ \E x \in OutsideDomain(cs.n) :
          cs' = [cs EXCEPT !.o = x,
                           !.pc = IF is_qnr(x) /\ x # cs.r THEN "padding" ELSE "sample_o"]
    /\ CreateFrame

(* constraints.rs 98-100 *)
create_padding ==
    /\ pc = "create" /\ cs.pc = "padding"
    /\ cs' = [cs EXCEPT !.pc = "sigma", !.gates = @ \o padding(cs.gates, cs.n)]
    /\ CreateFrame

(* constraints.rs 102-121: s and the permutation evaluations sigmal1 *)
create_sigma ==
    /\ pc = "create" /\ cs.pc = "sigma"
    /\ LET s == s_of(cs.n, cs.r, cs.o)
       IN cs' = [cs EXCEPT !.pc = "sid", !.sigmal1 = sigmal1_of(s, s, cs.gates, cs.n)]
    /\ CreateFrame

(* constraints.rs 123-182: sid[0..3] is appended to sid, which panics for a *)
(* domain of fewer than three elements, and the system is returned          *)
create_sid ==
    /\ pc = "create" /\ cs.pc = "sid"
    /\ cs' = IF Len(cs.sid) < 3 THEN [cs EXCEPT !.pc = "panic"]
             ELSE [cs EXCEPT !.pc = "some", !.sid = @ \o SubSeq(cs.sid, 1, 3)]
    /\ CreateFrame

(* constraints.rs 213-218: shift called on the system create returned *)
create_shift ==
    /\ pc = "create" /\ cs.pc = "some"
    /\ \E poly \in {<<>>, <<3>>, <<1, 2>>, <<0, 0, 0, 0, 1>>, <<5, 0, 0, 0, 0, 0, 0>>,
                     <<1, 2, 3, 4, 5, 6, 7>>, <<1, 2, 3, 4, 5, 6, 7, 8>>} :
          cs' = [cs EXCEPT !.pc = "shifted", !.poly = poly,
                           !.shifted = cs_shift(cs.sid, poly)]
    /\ CreateFrame

InitCreate ==
    (* The local state of one call of ConstraintSystem::create                 *)
    (*   pc      : the next step, "some", "none" or "panic"                    *)
    (*   input   : the gates given                                             *)
    (*   public  : the number of public inputs given                           *)
    (*   n       : the size of d1 (0: no domain)                               *)
    (*   gates, sid, r, o, sigmal1 : the locals of create that become the      *)
    (*             fields of the constraint system                             *)
    (*   poly, shifted : the argument and the result of a call of shift on     *)
    (*             the system returned                                         *)
    LET create_entry(gates, public) ==
            [pc |-> "domains", input |-> gates, public |-> public, n |-> 0,
             gates |-> gates, sid |-> <<>>, r |-> 0, o |-> 0, sigmal1 |-> <<>>,
             poly |-> <<>>, shifted |-> <<>>]
    IN
        /\ proofs = <<>>
        /\ pc = "create"
        /\ i = 1
        /\ srs_checked = 0
        /\ runs = <<>>
        /\ batch = <<>>
        /\ opener_calls = <<>>
        /\ result = Pending
        /\ tb = to_batch_entry
        /\ ae = absorb_evaluations_idle
        /\ oe = oracles_evals_idle
        /\ cs \in {create_entry(gates, public) : gates \in GateLists, public \in {0, 1}}
        /\ vf = verify_idle
        /\ fs = <<>>
        /\ ut = <<>>

NextCreate ==
    \/ create_domains
    \/ create_sample_r
    \/ create_sample_o
    \/ create_padding
    \/ create_sigma
    \/ create_sid
    \/ create_shift

SpecCreate == InitCreate /\ [][NextCreate]_vars

(* ---------------------------------------------------------------------- *)
(* ConstraintSystem::verify followed step by step                          *)
(* ---------------------------------------------------------------------- *)
VerifyFrame ==
    UNCHANGED <<proofs, pc, i, srs_checked, runs, batch, opener_calls, result, tb, ae, oe, cs, fs, ut>>

(* constraints.rs 195-196: the length of the witness, and the loop entered *)
verify_length ==
    /\ pc = "verify" /\ vf.pc = "length"
    /\ vf' = IF Len(vf.witness) # 3 * vf.n THEN [vf EXCEPT !.pc = "false"]
             ELSE [vf EXCEPT !.pc = "loop", !.i = vf.public]
    /\ VerifyFrame

(* variant of verify_gate: the left wire is not compared *)
verify_gate_no_left ==
    /\ pc = "verify" /\ vf.pc = "loop" /\ vf.i < Len(vf.gates)
    /\ LET g == vf.gates[vf.i + 1]
           w == vf.witness
           next == IF vf.i + 1 = Len(vf.gates) THEN g ELSE vf.gates[vf.i + 2]
           rbad == w[g.r[2] + 1] # w[g.r[1] + 1]
           obad == w[g.o[2] + 1] # w[g.o[1] + 1]
           bad == rbad \/ obad \/ ~gate_verify(g, w, next)
       IN vf' = [vf EXCEPT !.pc = IF bad THEN "false" ELSE "loop",
                           !.i = IF bad THEN @ ELSE @ + 1,
                           !.checked = @ \cup {vf.i},
                           !.read = @ \cup {g.r[2], g.r[1]}
                                      \cup (IF rbad THEN {} ELSE {g.o[2], g.o[1]})]
    /\ VerifyFrame

(* variant of verify_gate: every gate is its own next gate *)
verify_gate_next_self ==
    /\ pc = "verify" /\ vf.pc = "loop" /\ vf.i < Len(vf.gates)
    /\ LET g == vf.gates[vf.i + 1]
           w == vf.witness
           next == g
           lbad == w[g.l[2] + 1] # w[g.l[1] + 1]
           rbad == w[g.r[2] + 1] # w[g.r[1] + 1]
           obad == w[g.o[2] + 1] # w[g.o[1] + 1]
           bad == lbad \/ rbad \/ obad \/ ~gate_verify(g, w, next)
       IN vf' = [vf EXCEPT !.pc = IF bad THEN "false" ELSE "loop",
                           !.i = IF bad THEN @ ELSE @ + 1,
                           !.checked = @ \cup {vf.i},
                           !.read = @ \cup {g.l[2], g.l[1]}
                                      \cup (IF lbad THEN {} ELSE {g.r[2], g.r[1]})
                                      \cup (IF lbad \/ rbad THEN {} ELSE {g.o[2], g.o[1]})]
    /\ VerifyFrame

(* constraints.rs 197-209: one turn of the loop; the conditions are joined  *)
(* by ||, a wire is read only if the wires before it agree                  *)
verify_gate ==
    /\ pc = "verify" /\ vf.pc = "loop" /\ vf.i < Len(vf.gates)
    /\ LET g == vf.gates[vf.i + 1]
           w == vf.witness
           next == IF vf.i + 1 = Len(vf.gates) THEN g ELSE vf.gates[vf.i + 2]
           lbad == w[g.l[2] + 1] # w[g.l[1] + 1]
           rbad == w[g.r[2] + 1] # w[g.r[1] + 1]
           obad == w[g.o[2] + 1] # w[g.o[1] + 1]
           bad == lbad \/ rbad \/ obad \/ ~gate_verify(g, w, next)
       IN vf' = [vf EXCEPT !.pc = IF bad THEN "false" ELSE "loop",
                           !.i = IF bad THEN @ ELSE @ + 1,
                           !.checked = @ \cup {vf.i},
                           !.read = @ \cup {g.l[2], g.l[1]}
                                      \cup (IF lbad THEN {} ELSE {g.r[2], g.r[1]})
                                      \cup (IF lbad \/ rbad THEN {} ELSE {g.o[2], g.o[1]})]
    /\ VerifyFrame

(* constraints.rs 197, 210: the loop is over *)
verify_true ==
    /\ pc = "verify" /\ vf.pc = "loop" /\ vf.i >= Len(vf.gates)
    /\ vf' = [vf EXCEPT !.pc = "true"]
    /\ VerifyFrame

InitVerify ==
    (* The local state of one call of ConstraintSystem::verify                 *)
    (*   pc      : "length", "loop", "true" or "false"                         *)
    (*   gates, public, n : the fields of the constraint system                *)
    (*   witness : the argument                                                *)
    (*   i       : the loop variable                                           *)
    (*   checked : the gates whose condition was evaluated                     *)
    (*   read    : the positions of the witness read for the copy constraints  *)
    LET verify_entry(gates, public, witness) ==
            [pc |-> "length", gates |-> gates, public |-> public, n |-> Len(gates),
             witness |-> witness, i |-> 0, checked |-> {}, read |-> {}]
    IN
        (* the witnesses given to verify for a domain of size n: vectors of 3n      *)
        (* values, and vectors one shorter and one longer                           *)
        LET Witnesses(n) ==
                LET Row(pos) == pos % n
                    Col(pos) == pos \div n
                IN {[j \in 1..(3 * n) |-> 0],
                    [j \in 1..(3 * n) |-> 1],
                    [j \in 1..(3 * n) |-> (j - 1) % Q],
                    [j \in 1..(3 * n) |-> Col(j - 1) + 1],
                    [j \in 1..(3 * n) |-> IF Row(j - 1) = 0 THEN 2 + 2 * (Col(j - 1) \div 2)
                                                            ELSE Col(j - 1) + 1],
                    [j \in 1..(3 * n) |-> CASE Col(j - 1) = 0 -> Row(j - 1)
                                              [] Col(j - 1) = 1 -> 0
                                              [] OTHER -> IF Row(j - 1) = n - 1 THEN Row(j - 1)
                                                                                ELSE Row(j - 1) + 1],
                    [j \in 1..(3 * n - 1) |-> 0],
                    [j \in 1..(3 * n + 1) |-> 0]}
        IN
            (* the gate lists create returns a constraint system for, padded *)
            LET CreatedGateLists ==
                    {gates \o padding(gates, NextPow2(1, Len(gates))) :
                        gates \in {g \in GateLists : Len(g) >= 3 /\ Len(g) <= MaxDomainSize}}
            IN
                /\ proofs = <<>>
                /\ pc = "verify"
                /\ i = 1
                /\ srs_checked = 0
                /\ runs = <<>>
                /\ batch = <<>>
                /\ opener_calls = <<>>
                /\ result = Pending
                /\ tb = to_batch_entry
                /\ ae = absorb_evaluations_idle
                /\ oe = oracles_evals_idle
                /\ cs = create_idle
                /\ vf \in {verify_entry(gates, public, witness) :
                              gates \in CreatedGateLists, public \in 0..2,
                              witness \in Witnesses(MaxDomainSize)}
                /\ fs = <<>>
                /\ ut = <<>>

NextVerify ==
    \/ verify_length
    \/ verify_gate
    \/ verify_true

SpecVerify == InitVerify /\ [][NextVerify]_vars

(* ---------------------------------------------------------------------- *)
(* DefaultFrSponge: the calls made on one sponge                           *)
(*   calls         : the methods called, in order                          *)
(*   sponge        : the operations applied to self.sponge, in order       *)
(*   last_squeezed : the limbs left over, each named by the position in    *)
(*                   `sponge` of the squeeze it comes from                  *)
(*   before        : last_squeezed before the last call                    *)
(*   challenge     : the limbs of the last challenge                       *)
(* ---------------------------------------------------------------------- *)
CHALLENGE_LENGTH_IN_LIMBS == 2

(* variant of fr_absorb: last_squeezed is kept *)
fr_absorb_keeps_limbs ==
    /\ pc = "fr_sponge" /\ Len(fs.calls) < MaxCalls
    /\ fs' = [fs EXCEPT !.calls = Append(@, "absorb"),
                        !.before = fs.last_squeezed,
                        !.sponge = Append(@, "absorb")]
    /\ UNCHANGED <<proofs, pc, i, srs_checked, runs, batch, opener_calls, result,
                   tb, ae, oe, cs, vf, ut>>

(* plonk_sponge.rs 39-42 *)
fr_absorb ==
    /\ pc = "fr_sponge" /\ Len(fs.calls) < MaxCalls
    /\ fs' = [fs EXCEPT !.calls = Append(@, "absorb"),
                        !.before = fs.last_squeezed,
                        !.last_squeezed = <<>>,
                        !.sponge = Append(@, "absorb")]
    /\ UNCHANGED <<proofs, pc, i, srs_checked, runs, batch, opener_calls, result,
                   tb, ae, oe, cs, vf, ut>>

(* plonk_sponge.rs 44-47 *)
fr_absorb_multiple ==
    /\ pc = "fr_sponge" /\ Len(fs.calls) < MaxCalls
    /\ fs' = [fs EXCEPT !.calls = Append(@, "absorb_multiple"),
                        !.before = fs.last_squeezed,
                        !.last_squeezed = <<>>,
                        !.sponge = Append(@, "absorb")]
    /\ UNCHANGED <<proofs, pc, i, srs_checked, runs, batch, opener_calls, result,
                   tb, ae, oe, cs, vf, ut>>

(* plonk_sponge.rs 59-105: the whole of absorb_evaluations *)
fr_absorb_evaluations ==
    /\ pc = "fr_sponge" /\ Len(fs.calls) < MaxCalls
    /\ fs' = [fs EXCEPT !.calls = Append(@, "absorb_evaluations"),
                        !.before = fs.last_squeezed,
                        !.last_squeezed = <<>>,
                        !.sponge = Append(@, "absorb")]
    /\ UNCHANGED <<proofs, pc, i, srs_checked, runs, batch, opener_calls, result,
                   tb, ae, oe, cs, vf, ut>>

(* plonk_sponge.rs 49-52: challenge, by DefaultFrSponge::squeeze: the limbs *)
(* are taken from last_squeezed, which is first filled by a squeeze of the  *)
(* sponge when it holds too few; a squeeze gives two or three limbs         *)
fr_challenge ==
    /\ pc = "fr_sponge" /\ Len(fs.calls) < MaxCalls
    /\ \E h \in {CHALLENGE_LENGTH_IN_LIMBS, CHALLENGE_LENGTH_IN_LIMBS + 1} :
          LET enough == Len(fs.last_squeezed) >= CHALLENGE_LENGTH_IN_LIMBS
              sponge == IF enough THEN fs.sponge ELSE Append(fs.sponge, "squeeze")
              limbs == IF enough THEN fs.last_squeezed
                       ELSE fs.last_squeezed \o [k \in 1..h |-> Len(sponge)]
          IN fs' = [fs EXCEPT !.calls = Append(@, "challenge"),
                              !.before = fs.last_squeezed,
                              !.sponge = sponge,
                              !.challenge = SubSeq(limbs, 1, CHALLENGE_LENGTH_IN_LIMBS),
                              !.last_squeezed =
                                  SubSeq(limbs, CHALLENGE_LENGTH_IN_LIMBS + 1, Len(limbs))]
    /\ UNCHANGED <<proofs, pc, i, srs_checked, runs, batch, opener_calls, result,
                   tb, ae, oe, cs, vf, ut>>

(* plonk_sponge.rs 32-37: new *)
InitFrSponge ==
    /\ proofs = <<>>
    /\ pc = "fr_sponge"
    /\ i = 1
    /\ srs_checked = 0
    /\ runs = <<>>
    /\ batch = <<>>
    /\ opener_calls = <<>>
    /\ result = Pending
    /\ tb = to_batch_entry
    /\ ae = absorb_evaluations_idle
    /\ oe = oracles_evals_idle
    /\ cs = create_idle
    /\ vf = verify_idle
    /\ fs = [calls |-> <<>>, sponge |-> <<>>, last_squeezed |-> <<>>,
             before |-> <<>>, challenge |-> <<>>]
    /\ ut = <<>>

NextFrSponge ==
    \/ fr_absorb
    \/ fr_absorb_multiple
    \/ fr_absorb_evaluations
    \/ fr_challenge

SpecFrSponge == InitFrSponge /\ [][NextFrSponge]_vars

(* ---------------------------------------------------------------------- *)
(* Calls of the functions of utils.rs                                      *)
(*   pc     : the call to make, or "done"                                  *)
(*   evals  : the receiver, the evaluations or the coefficients            *)
(*   a, b   : the arguments: two lengths for shift; the point and the size *)
(*            of the chunks for eval; the point for eval_polynomial        *)
(*   result : the value returned                                           *)
(*   first  : for shift, the value returned by the first of the two calls  *)
(* ---------------------------------------------------------------------- *)
(* utils.rs 50-58: self.shift(a) *)
utils_shift ==
    /\ pc = "utils" /\ ut.pc = "shift"
    /\ ut' = [ut EXCEPT !.pc = IF Len(ut.evals) = 0 THEN "panic" ELSE "shift_again",
                        !.first = evals_shift(ut.evals, ut.a),
                        !.result = evals_shift(ut.evals, ut.a)]
    /\ UNCHANGED <<proofs, pc, i, srs_checked, runs, batch, opener_calls, result,
                   tb, ae, oe, cs, vf, fs>>

(* utils.rs 50-58: shift(b) on the value the first call returned *)
utils_shift_again ==
    /\ pc = "utils" /\ ut.pc = "shift_again"
    /\ ut' = [ut EXCEPT !.pc = "done", !.result = evals_shift(ut.first, ut.b)]
    /\ UNCHANGED <<proofs, pc, i, srs_checked, runs, batch, opener_calls, result,
                   tb, ae, oe, cs, vf, fs>>

(* utils.rs 86-97: self.eval(a, b) *)
utils_eval ==
    /\ pc = "utils" /\ ut.pc = "eval"
    /\ ut' = [ut EXCEPT !.pc = IF ut.b = 0 THEN "panic" ELSE "done",
                        !.result = eval(ut.evals, ut.a, ut.b)]
    /\ UNCHANGED <<proofs, pc, i, srs_checked, runs, batch, opener_calls, result,
                   tb, ae, oe, cs, vf, fs>>

(* utils.rs 62-69: eval_polynomial(coeffs, a) *)
utils_eval_polynomial ==
    /\ pc = "utils" /\ ut.pc = "eval_polynomial"
    /\ ut' = [ut EXCEPT !.pc = "done", !.result = eval_polynomial(ut.evals, ut.a)]
    /\ UNCHANGED <<proofs, pc, i, srs_checked, runs, batch, opener_calls, result,
                   tb, ae, oe, cs, vf, fs>>

InitUtils ==
    /\ proofs = <<>>
    /\ pc = "utils"
    /\ i = 1
    /\ srs_checked = 0
    /\ runs = <<>>
    /\ batch = <<>>
    /\ opener_calls = <<>>
    /\ result = Pending
    /\ tb = to_batch_entry
    /\ ae = absorb_evaluations_idle
    /\ oe = oracles_evals_idle
    /\ cs = create_idle
    /\ vf = verify_idle
    /\ fs = <<>>
    /\ \E evals \in UNION {[1..n -> 0..2] : n \in 0..MaxLen} :
          \/ \E a \in 0..(MaxLen + 1), b \in 0..(MaxLen + 1) :
                ut = [pc |-> "shift", fn |-> "shift", evals |-> evals, a |-> a, b |-> b,
                      result |-> <<>>, first |-> <<>>]
          \/ /\ evals = from_coefficients_vec(evals)
             /\ \E a \in {0, 1, 2, 5}, b \in 0..(MaxLen + 1), fn \in {"eval", "eval_polynomial"} :
                   ut = [pc |-> fn, fn |-> fn, evals |-> evals, a |-> a,
                         b |-> IF fn = "eval" THEN b ELSE 0,
                         result |-> <<>>, first |-> <<>>]

NextUtils ==
    \/ utils_shift
    \/ utils_shift_again
    \/ utils_eval
    \/ utils_eval_polynomial

SpecUtils == InitUtils /\ [][NextUtils]_vars

(* ---------------------------------------------------------------------- *)
(* Properties of batch_verify (checked under Spec)                         *)
(* ---------------------------------------------------------------------- *)
Differs(k) == proofs[k].index.srs.g_len # proofs[1].index.srs.g_len
TooSmall(k) == proofs[k].index.srs.max_degree < proofs[k].index.domain_size
SomeDiffer == \E j, k \in DOMAIN proofs : proofs[j].index.srs.g_len # proofs[k].index.srs.g_len
(* verifier.rs 889-902: verify(index, proof) = batch_verify([(index, proof)]) *)
(* as a function of the pair                                                *)
verify(index, proof) ==
    LET c == srs_check(index, index.srs)
        r == to_batch(index, proof)
    IN IF c # Ok THEN c
       ELSE IF r.res # Ok THEN r.res
       ELSE IF srs_verify(<<BatchEvaluationProof(proof, r)>>) THEN Ok ELSE OpenProof

(* C1: on the empty list batch_verify returns Ok(()) and makes no SRS       *)
(* check, no to_batch call and no opener call.                              *)
C1_EmptyBatch ==
    proofs = <<>> =>
        /\ srs_checked = 0
        /\ runs = <<>>
        /\ opener_calls = <<>>
        /\ pc = "start" \/ (pc = "done" /\ result = Ok)

C1_Witness == proofs = <<>> /\ pc = "done" /\ result = Ok

(* C2 as stated: whenever two indices of the batch have SRS of different    *)
(* lengths, batch_verify returns Err(DifferentSRS), without to_batch and    *)
(* without the opener.                                                      *)
C2_Original ==
    (pc = "done" /\ SomeDiffer) =>
        (result = DifferentSRS /\ runs = <<>> /\ opener_calls = <<>>)

(* C2 amended: when the SRS lengths of the batch are not all equal,         *)
(* batch_verify returns Err(DifferentSRS) unless an index placed before the *)
(* first index whose length differs from the first index's has an SRS too   *)
(* small for its domain, in which case it returns Err(SRSTooSmall); in both *)
(* cases no proof goes through to_batch and the opener is not invoked.      *)
C2_DifferentSRS ==
    LET FirstDiffering == CHOOSE k \in DOMAIN proofs : Differs(k) /\ \A j \in 1..(k - 1) : ~Differs(j)
    IN
        SomeDiffer =>
            /\ runs = <<>>
            /\ opener_calls = <<>>
            /\ pc \in {"start", "srs", "done"}
            /\ pc = "done" =>
                  IF \E k \in 1..(FirstDiffering - 1) : TooSmall(k)
                  THEN result = SRSTooSmall
                  ELSE result = DifferentSRS

C2_Witness ==
    /\ pc = "done" /\ Len(proofs) = 2 /\ Differs(2)
    /\ result = DifferentSRS /\ TooSmall(2) /\ srs_checked = 2

(* C3: all SRS lengths being equal, batch_verify returns Err(SRSTooSmall)   *)
(* whenever some index has an SRS of maximum degree below its domain size;  *)
(* every index is checked before the first to_batch call.                   *)
C3_SRSTooSmall ==
    /\ (~SomeDiffer /\ \E k \in DOMAIN proofs : TooSmall(k)) =>
          /\ runs = <<>>
          /\ opener_calls = <<>>
          /\ pc \in {"start", "srs", "done"}
          /\ pc = "done" => result = SRSTooSmall
    /\ runs # <<>> =>
          /\ srs_checked = Len(proofs)
          /\ \A k \in DOMAIN proofs : ~TooSmall(k) /\ ~Differs(k)

C3_Witness ==
    /\ pc = "done" /\ Len(proofs) = 2 /\ ~SomeDiffer
    /\ ~TooSmall(1) /\ TooSmall(2) /\ result = SRSTooSmall

(* C4: when the SRS checks pass and every to_batch succeeds, the opener is  *)
(* invoked exactly once, on the BatchEvaluationProofs of all proofs in      *)
(* input order; the result is Ok iff the opener accepts and Err(OpenProof)  *)
(* iff it rejects.                                                          *)
C4_Opener ==
    /\ Len(opener_calls) <= 1
    /\ (pc = "done" /\ proofs # <<>> /\ Len(runs) = Len(proofs)
          /\ (\A k \in DOMAIN runs : runs[k] = Ok)) =>
          /\ Len(opener_calls) = 1
          /\ Len(opener_calls[1]) = Len(proofs)
          /\ \A k \in DOMAIN proofs :
                opener_calls[1][k] =
                    BatchEvaluationProof(proofs[k].proof,
                                         to_batch(proofs[k].index, proofs[k].proof))
          /\ result = Ok <=> srs_verify(opener_calls[1])
          /\ result = OpenProof <=> ~srs_verify(opener_calls[1])

C4_Witness ==
    /\ pc = "done" /\ Len(proofs) = 2 /\ Len(opener_calls) = 1
    /\ proofs[1].proof.opening = "valid" /\ proofs[2].proof.opening = "invalid"
    /\ result = OpenProof

(* C5: to_batch runs on the proofs one at a time in input order; at the     *)
(* first error batch_verify returns that error at once: no later proof is   *)
(* processed and the opener is never invoked.                               *)
C5_FirstError ==
    /\ Len(runs) <= Len(proofs)
    /\ \A k \in DOMAIN runs :
          /\ runs[k] = to_batch(proofs[k].index, proofs[k].proof).res
          /\ k < Len(runs) => runs[k] = Ok
          /\ runs[k] # Ok =>
                /\ pc = "done"
                /\ result = runs[k]
                /\ opener_calls = <<>>
                /\ Len(batch) = k - 1

C5_Witness ==
    /\ pc = "done" /\ Len(proofs) = 2 /\ Len(runs) = 1
    /\ result = IncorrectCommitmentLength("t")
    /\ to_batch(proofs[2].index, proofs[2].proof).res
          = IncorrectPrevChallengesLength(0, 1)

(* C6 as stated: batch_verify succeeds on a list iff verify succeeds on     *)
(* each of its pairs.                                                       *)
C6_Original ==
    pc = "done" =>
        (result = Ok <=>
            \A k \in DOMAIN proofs : verify(proofs[k].index, proofs[k].proof) = Ok)

(* C6 amended: for every list whose indices all have SRS of the same        *)
(* length, batch_verify succeeds iff verify succeeds on each pair; on a     *)
(* list of one pair batch_verify returns what verify returns.               *)
C6_BatchEquivalence ==
    pc = "done" =>
        /\ ~SomeDiffer =>
              (result = Ok <=>
                  \A k \in DOMAIN proofs : verify(proofs[k].index, proofs[k].proof) = Ok)
        /\ Len(proofs) = 1 => result = verify(proofs[1].index, proofs[1].proof)

C6_Witness ==
    /\ pc = "done" /\ Len(proofs) = 2 /\ ~SomeDiffer /\ result = Ok
    /\ proofs[1] # proofs[2]

(* ---------------------------------------------------------------------- *)
(* Properties of to_batch and oracles (checked under SpecToBatch)          *)
(* ---------------------------------------------------------------------- *)
TheIndex == proofs[1].index
TheProof == proofs[1].proof
Returned == tb.pc = "returned"
InOracles == tb.fq_sponge # <<>>

(* C7: a proof whose number of previous challenges differs from the         *)
(* index's makes to_batch return IncorrectPrevChallengesLength(expected,    *)
(* got) in its first check: the lagrange bases are not fetched, the public  *)
(* commitment is not built and no sponge is created.                        *)
C7_PrevChallenges ==
    TheProof.prev_challenges # TheIndex.prev_challenges =>
        /\ tb.pc = "check_prev" \/
              (Returned /\ tb.res = IncorrectPrevChallengesLength(
                                        TheIndex.prev_challenges,
                                        TheProof.prev_challenges))
        /\ ~tb.lgr_comm
        /\ ~tb.public_comm
        /\ tb.fq_sponge = <<>> /\ tb.fr_sponge = <<>> /\ tb.prev_sponge = <<>>

C7_Witness ==
    /\ Returned
    /\ TheIndex.prev_challenges = 0 /\ TheProof.prev_challenges = 1
    /\ TheProof.public # TheIndex.public
    /\ tb.res = IncorrectPrevChallengesLength(0, 1)

(* C8: the number of previous challenges being right, a proof whose public  *)
(* input length differs from index.public makes to_batch return             *)
(* IncorrectPubicInputLength(index.public), before the public commitment is *)
(* computed and before the transcript is started.                           *)
C8_PublicLength ==
    (TheProof.prev_challenges = TheIndex.prev_challenges
       /\ TheProof.public # TheIndex.public) =>
        /\ tb.pc \in {"check_prev", "public_input"} \/
              (Returned /\ tb.res = IncorrectPubicInputLength(TheIndex.public))
        /\ ~tb.public_comm
        /\ tb.fq_sponge = <<>> /\ tb.fr_sponge = <<>> /\ tb.prev_sponge = <<>>

C8_Witness ==
    /\ Returned
    /\ TheIndex.public = 0 /\ TheProof.public = 1
    /\ TheProof.t_comm_len # PERMUTS
    /\ tb.res = IncorrectPubicInputLength(0)

LookupBlockFails ==
    /\ TheIndex.lookup_index.present
    /\ \/ ~TheProof.lookup.present
       \/ TheIndex.lookup_index.runtime_tables_selector /\ ~TheProof.lookup.runtime

(* C9 as stated: oracles returns IncorrectCommitmentLength("t") whenever    *)
(* the length of t_comm differs from PERMUTS.                               *)
C9_Original ==
    (InOracles /\ Returned /\ TheProof.t_comm_len # PERMUTS) =>
        tb.res = IncorrectCommitmentLength("t")

(* C9 amended: oracles returns IncorrectCommitmentLength("t") whenever the  *)
(* length of t_comm differs from PERMUTS and the lookup block before it     *)
(* raised no error; the check comes right after the squeeze of alpha, and   *)
(* whenever the length differs t_comm is never absorbed and zeta is never   *)
(* squeezed.                                                                *)
C9_TCommLength ==
    TheProof.t_comm_len # PERMUTS =>
        /\ ~Absorbed(tb.fq_sponge, "t_comm")
        /\ ~Squeezed(tb.fq_sponge, "zeta")
        /\ (InOracles /\ Returned /\ ~LookupBlockFails) =>
              /\ tb.res = IncorrectCommitmentLength("t")
              /\ tb.fq_sponge[Len(tb.fq_sponge)] = Challenge("alpha")

C9_Witness ==
    /\ Returned /\ TheProof.t_comm_len = PERMUTS + 1
    /\ TheIndex.lookup_index.present
    /\ tb.res = IncorrectCommitmentLength("t")
    /\ Squeezed(tb.fq_sponge, "alpha")

(* C10: the index having a lookup index and the proof no lookup             *)
(* commitments, with the number of previous challenges and the public input *)
(* length right, to_batch returns LookupCommitmentMissing, and beta is      *)
(* never squeezed.                                                          *)
C10_LookupCommitmentMissing ==
    (/\ TheIndex.lookup_index.present /\ ~TheProof.lookup.present
     /\ TheProof.prev_challenges = TheIndex.prev_challenges
     /\ TheProof.public = TheIndex.public) =>
        /\ ~Squeezed(tb.fq_sponge, "beta")
        /\ Returned => tb.res = LookupCommitmentMissing
        /\ tb.pc \in {"check_prev", "public_input", "oracles", "oracles_lookup", "returned"}

C10_Witness ==
    /\ Returned /\ TheIndex.lookup_index.present /\ ~TheProof.lookup.present
    /\ tb.res = LookupCommitmentMissing
    /\ InOracles /\ ~Squeezed(tb.fq_sponge, "beta")

(* no check before the lookup evaluations of to_batch fails: the counts of  *)
(* previous challenges and of public inputs, the lookup block of oracles,   *)
(* the length of t_comm and the lookup commitments read by f_comm           *)
ReachesLookupEvaluations ==
    /\ TheProof.prev_challenges = TheIndex.prev_challenges
    /\ TheProof.public = TheIndex.public
    /\ ~LookupBlockFails
    /\ TheProof.t_comm_len = PERMUTS

LookupEvalsAbsent == ~TheProof.evals0_lookup.present \/ ~TheProof.evals1_lookup.present

SortedCountsDiffer ==
    \/ TheProof.lookup.sorted # TheProof.evals0_lookup.sorted
    \/ TheProof.lookup.sorted # TheProof.evals1_lookup.sorted

C13_RuntimeDisagreement ==
    (* a proof whose lookup part has no defect other than its runtime table *)
    LET LookupPartSound ==
            /\ TheProof.prev_challenges = TheIndex.prev_challenges
            /\ TheProof.public = TheIndex.public
            /\ TheProof.t_comm_len = PERMUTS
            /\ TheProof.lookup.present /\ ~LookupEvalsAbsent /\ ~SortedCountsDiffer
    IN
        LET RuntimeDisagrees ==
                LET RuntimeComplete ==
                        /\ TheProof.lookup.runtime
                        /\ TheProof.evals0_lookup.runtime
                        /\ TheProof.evals1_lookup.runtime
                IN
                    (* the index's requirement of a runtime table and what the proof provides *)
                    LET RuntimeProvided ==
                            \/ TheProof.lookup.runtime
                            \/ TheProof.evals0_lookup.runtime
                            \/ TheProof.evals1_lookup.runtime
                    IN
                        IF TheIndex.lookup_index.runtime_tables_selector
                        THEN ~RuntimeComplete
                        ELSE RuntimeProvided
        IN
            (/\ Returned /\ TheIndex.lookup_index.present
             /\ LookupPartSound /\ RuntimeDisagrees) =>
                tb.res = IncorrectRuntimeProof

(* C15: in every successful run of oracles the Fq sponge performs exactly:  *)
(* creation, the index digest, the commitments of the previous challenges,  *)
(* the public commitment, the COLUMNS witness commitments; if the index has *)
(* lookup, the runtime commitment (runtime tables used), the squeeze of the *)
(* joint combiner (joint lookup only) and each sorted commitment; beta;     *)
(* gamma; the aggregation commitment (index with lookup only); z_comm;      *)
(* alpha; t_comm; zeta.                                                     *)
C15_FqTranscript ==
    (* oracles has run to its end: zeta has been squeezed *)
    LET OraclesSucceeded == Squeezed(tb.fq_sponge, "zeta")
    IN
        OraclesSucceeded =>
            LET li == TheIndex.lookup_index
            IN tb.fq_sponge =
                  <<New, AbsorbFq("verifier_index_digest")>>
                  \o [k \in 1..TheProof.prev_challenges |-> AbsorbG("prev_challenges", k - 1)]
                  \o <<AbsorbG("public_comm", 0)>>
                  \o [k \in 1..COLUMNS |-> AbsorbG("w_comm", k - 1)]
                  \o (IF li.present /\ li.runtime_tables_selector
                        THEN <<AbsorbG("lookup.runtime", 0)>> ELSE <<>>)
                  \o (IF li.present /\ li.joint THEN <<Challenge("joint_combiner")>> ELSE <<>>)
                  \o (IF li.present
                        THEN [k \in 1..TheProof.lookup.sorted |-> AbsorbG("lookup.sorted", k - 1)]
                        ELSE <<>>)
                  \o <<Challenge("beta"), Challenge("gamma")>>
                  \o (IF li.present THEN <<AbsorbG("lookup.aggreg", 0)>> ELSE <<>>)
                  \o <<AbsorbG("z_comm", 0), Challenge("alpha"),
                       AbsorbG("t_comm", 0), Challenge("zeta")>>

(* C16: once z_comm is absorbed, the aggregation commitment has been        *)
(* absorbed if and only if the verifier index has a lookup index; for an    *)
(* index without lookup gamma is followed at once by z_comm, whatever the   *)
(* proof contains.                                                          *)
C16_AggregIffLookupIndex ==
    Absorbed(tb.fq_sponge, "z_comm") =>
        /\ Absorbed(tb.fq_sponge, "lookup.aggreg") <=> TheIndex.lookup_index.present
        /\ ~TheIndex.lookup_index.present =>
              \A k \in DOMAIN tb.fq_sponge :
                  tb.fq_sponge[k] = Challenge("gamma") =>
                      tb.fq_sponge[k + 1] = AbsorbG("z_comm", 0)

(* C17: the Fr sponge of oracles performs exactly: creation, absorption of  *)
(* the digest of the Fq sponge, absorption of the digest of a separate      *)
(* fresh Fr sponge that absorbed the challenge scalars of every previous    *)
(* challenge in proof order, ft_eval1, public_evals[0], public_evals[1],    *)
(* absorb_evaluations on the two evaluation records, the squeeze of v, the  *)
(* squeeze of u; the Fq digest is taken only after zeta was squeezed.       *)
C17_FrTranscript ==
    /\ tb.fr_sponge # <<>> =>
          /\ tb.fr_sponge = <<Op("new", "", 0),
                              Op("absorb", "digest", 0),
                              Op("absorb", "prev_challenge_digest", 0),
                              Op("absorb", "ft_eval1", 0),
                              Op("absorb_multiple", "public_evals", 0),
                              Op("absorb_multiple", "public_evals", 1),
                              Op("absorb_evaluations", "evals", 0),
                              Op("challenge", "v", 0),
                              Op("challenge", "u", 0)>>
          /\ tb.prev_challenge_digest =
                <<Op("new", "", 0)>>
                \o [k \in 1..TheProof.prev_challenges |->
                       Op("absorb_multiple", "prev_challenges.chals", k - 1)]
          /\ tb.digest = tb.fq_sponge
    /\ tb.digest # <<>> => tb.digest[Len(tb.digest)] = Op("challenge", "zeta", 0)
    /\ (tb.digest = <<>>) <=> (tb.fr_sponge = <<>>)

C17_Witness ==
    /\ Returned /\ tb.res = Ok
    /\ TheProof.prev_challenges = MaxPrev
    /\ Len(tb.prev_challenge_digest) = MaxPrev + 1
    /\ Squeezed(tb.fr_sponge, "u")

C19_EvaluationList ==
    LET li == TheIndex.lookup_index
        One(name) == <<[name |-> name, k |-> 0]>>
        Many(name, n) == [k \in 1..n |-> [name |-> name, k |-> k - 1]]
        Commitments ==
            Many("prev_challenges.comm", TheProof.prev_challenges)
            \o One("public_comm") \o One("ft_comm") \o One("z_comm")
            \o One("generic_comm") \o One("psm_comm")
            \o Many("w_comm", COLUMNS) \o Many("sigma_comm", PERMUTS - 1)
            \o (IF li.present
                  THEN Many("lookup.sorted", TheProof.lookup.sorted)
                       \o One("lookup.aggreg") \o One("table_comm")
                       \o (IF li.runtime_tables_selector
                             THEN One("lookup.runtime") ELSE <<>>)
                  ELSE <<>>)
        EvalsOf(comm) ==
            CASE comm.name = "prev_challenges.comm" -> "prev_challenges.evals"
              [] comm.name = "public_comm" -> "public_evals"
              [] comm.name = "z_comm" -> "evals.z"
              [] comm.name = "generic_comm" -> "evals.generic_selector"
              [] comm.name = "psm_comm" -> "evals.poseidon_selector"
              [] comm.name = "w_comm" -> "evals.w"
              [] comm.name = "sigma_comm" -> "evals.s"
              [] comm.name = "lookup.sorted" -> "evals.lookup.sorted"
              [] comm.name = "lookup.aggreg" -> "evals.lookup.aggreg"
              [] comm.name = "table_comm" -> "evals.lookup.table"
              [] comm.name = "lookup.runtime" -> "evals.lookup.runtime"
              [] OTHER -> ""
        Rows(comm) ==
            IF comm.name = "ft_comm"
            THEN <<[name |-> "ft_eval0", k |-> 0, row |-> 0],
                   [name |-> "ft_eval1", k |-> 0, row |-> 1]>>
            ELSE <<[name |-> EvalsOf(comm), k |-> comm.k, row |-> 0],
                   [name |-> EvalsOf(comm), k |-> comm.k, row |-> 1]>>
    IN (Returned /\ tb.res = Ok) =>
          /\ Len(tb.evaluations) = Len(Commitments)
          /\ \A k \in DOMAIN tb.evaluations :
                /\ tb.evaluations[k].commitment = Commitments[k]
                /\ tb.evaluations[k].degree_bound = "None"
                /\ Len(tb.evaluations[k].evaluations) = 2
                /\ tb.evaluations[k].evaluations = Rows(Commitments[k])

C19_Witness ==
    /\ Returned /\ tb.res = Ok
    /\ TheIndex.lookup_index.present /\ TheIndex.lookup_index.runtime_tables_selector
    /\ TheProof.lookup.sorted = MaxSorted /\ TheProof.prev_challenges = MaxPrev
    /\ Len(tb.evaluations) = MaxPrev + 5 + COLUMNS + (PERMUTS - 1) + MaxSorted + 3

(* C20: the combined inner product of oracles is taken over every entry of  *)
(* the evaluation list to_batch hands to the opener, in the same order: as  *)
(* many entries, each with the rows of the corresponding Evaluation, the    *)
(* lookup entries included when the index has lookup.                       *)
C20_InnerProductEntries ==
    (Returned /\ tb.res = Ok) =>
        /\ Len(tb.es) = Len(tb.evaluations)
        /\ \A k \in DOMAIN tb.es : tb.es[k] = tb.evaluations[k].evaluations

C21_PublicEvals ==
    LET p == oe.public
        k == Len(p)
        omega(j) == FPow(group_gen, j)
        (* the Lagrange polynomial of omega^m on d1, at y *)
        Lagrange(m, y) ==
            FProd(1, [j \in 1..DomainSize |->
                        IF j - 1 = m THEN 1
                        ELSE FMul(FSub(y, omega(j - 1)),
                                  FInv(FSub(omega(m), omega(j - 1))))])
        Negated(y) == FNeg(FSum([j \in 1..k |-> FMul(p[j], Lagrange(j - 1, y))]))
    IN oe.pc \in {"ft_eval0", "done"} =>
          /\ k <= DomainSize /\ oe.x.zeta \notin D1
          /\ oe.public_evals = <<(<<Negated(oe.x.zeta)>>),
                                 (<<Negated(FMul(oe.x.zeta, group_gen))>>)>>
          /\ k = 0 => oe.public_evals = <<(<<0>>), (<<0>>)>>

C21_Witness ==
    /\ oe.pc = "done" /\ Len(oe.public) = DomainSize
    /\ oe.public[1] = 1 /\ oe.public[DomainSize] = MaxPublicValue
    /\ oe.public_evals[1] # <<0>> /\ oe.public_evals[1] # oe.public_evals[2]

(* C22 as stated: ft_eval0 = perm - public_eval[0] - minus + zkcorr -       *)
(* LE(constant_term), where minus multiplies one factor for every one of    *)
(* the COLUMNS witness columns into alpha0*zkp(zeta)*z.                     *)
C22_Original ==
    LET x == oe.x
        perm == FProd(FMul(FMul(FMul(FAdd(x.evals[1].w[PERMUTS], x.gamma), x.evals[2].z),
                                x.alphas[1]), x.zkp),
                      oe.perm_terms)
        minus == FProd(FMul(FMul(x.alphas[1], x.zkp), x.evals[1].z), oe.minus_terms)
        zkcorr == FMul(FMul(FSub(FPow(x.zeta, DomainSize), 1), FSub(1, x.evals[1].z)),
                       FAdd(FMul(x.alphas[2], FInv(FSub(x.zeta, 1))),
                            FMul(x.alphas[3], FInv(FSub(x.zeta, index_w)))))
    IN oe.pc = "done" =>
          /\ Len(oe.minus_terms) = COLUMNS
          /\ oe.ft_eval0 =
                FSub(FAdd(FSub(FSub(perm, oe.public_evals[1][1]), minus), zkcorr),
                     x.constant_term)

(* C22 amended: ft_eval0 = perm - public_eval[0] - minus + zkcorr -         *)
(* LE(constant_term), where perm is the product over i < PERMUTS-1 of       *)
(* (beta*s_i + w_i + gamma) times (w[PERMUTS-1] + gamma)*z_omega*alpha0*    *)
(* zkp(zeta), and minus is the product over the PERMUTS columns i that have *)
(* a coordinate shift of (gamma + beta*zeta*shift_i + w_i) times            *)
(* alpha0*zkp(zeta)*z.                                                      *)
C22_FtEval0 ==
    LET x == oe.x
        w == x.evals[1].w
        sg == x.evals[1].s
        alpha0 == x.alphas[1]
        perm == FMul(FProd(1, [j \in 1..(PERMUTS - 1) |->
                                  FAdd(FAdd(FMul(x.beta, sg[j]), w[j]), x.gamma)]),
                     FMul(FMul(FMul(FAdd(w[PERMUTS], x.gamma), x.evals[2].z), alpha0),
                          x.zkp))
        minus == FMul(FProd(1, [j \in 1..PERMUTS |->
                                   FAdd(FAdd(x.gamma, FMul(FMul(x.beta, x.zeta), shift[j])),
                                        w[j])]),
                      FMul(FMul(alpha0, x.zkp), x.evals[1].z))
        zkcorr == FMul(FMul(FSub(FPow(x.zeta, DomainSize), 1), FSub(1, x.evals[1].z)),
                       FAdd(FMul(x.alphas[2], FInv(FSub(x.zeta, 1))),
                            FMul(x.alphas[3], FInv(FSub(x.zeta, index_w)))))
    IN oe.pc = "done" =>
          /\ Len(oe.perm_terms) = PERMUTS - 1
          /\ Len(oe.minus_terms) = PERMUTS
          /\ oe.ft_eval0 =
                FSub(FAdd(FSub(FSub(perm, oe.public_evals[1][1]), minus), zkcorr),
                     x.constant_term)

C22_Witness ==
    /\ oe.pc = "done" /\ oe.public # <<>>
    /\ oe.x.evals[1].z # oe.x.evals[2].z
    /\ oe.x.constant_term # 0
    /\ oe.public_evals[1][1] # 0
    /\ oe.ft_eval0 # 0
    /\ \A j \in 1..PERMUTS : oe.minus_terms[j] # 0

(* create has returned a constraint system *)
Created == cs.pc = "some"
(* the ports of a gate: column, local position, position wired to *)
Ports(g) == {<<1, g.l[1], g.l[2]>>, <<2, g.r[1], g.r[2]>>, <<3, g.o[1], g.o[2]>>}
(* the three cosets of d1 the positions are identified with *)
Coset(c) == {s_of(cs.n, cs.r, cs.o)[c][j] : j \in 1..cs.n}

(* C23: create returns None if and only if the number of gates exceeds the  *)
(* largest radix-2 domain size; for every gate list within that size, the   *)
(* lists of one or two gates included, it returns a constraint system.      *)
C23_CreateNone ==
    /\ cs.pc = "none" => Len(cs.input) > MaxDomainSize
    /\ Len(cs.input) > MaxDomainSize => cs.pc \in {"domains", "none"}
    /\ Len(cs.input) <= MaxDomainSize => cs.pc # "panic"

(* C24: in every constraint system returned by create r and o are           *)
(* quadratic non-residues, r # o, neither is an element of d1, and the      *)
(* three cosets d1, r*d1 and o*d1 are pairwise disjoint.                    *)
C24_Shifts ==
    Created =>
        /\ is_qnr(cs.r) /\ is_qnr(cs.o) /\ cs.r # cs.o
        /\ cs.r \notin Coset(1) /\ cs.o \notin Coset(1)
        /\ Coset(1) \cap Coset(2) = {}
        /\ Coset(1) \cap Coset(3) = {}
        /\ Coset(2) \cap Coset(3) = {}

(* C25: after create on k gates with d1 of size n the gate list has n       *)
(* gates, the first k are the gates given, unchanged and in order, and the  *)
(* gate at every position g in [k, n) is a Zero gate with the wires (g,g),  *)
(* (n+g,n+g), (2n+g,2n+g).                                                  *)
C25_Padding ==
    cs.pc \in {"sigma", "sid", "some"} =>
        LET k == Len(cs.input)
            n == cs.n
        IN /\ Len(cs.gates) = n
           /\ SubSeq(cs.gates, 1, k) = cs.input
           /\ \A g \in k..(n - 1) :
                 cs.gates[g + 1] = [typ |-> "Zero", l |-> <<g, g>>,
                                    r |-> <<n + g, n + g>>,
                                    o |-> <<2 * n + g, 2 * n + g>>]

C25_Witness ==
    /\ Created /\ Len(cs.input) = 3 /\ cs.n = 4 /\ Len(cs.gates) = 4
    /\ cs.input[1].typ = "Generic" /\ cs.input[1].l[2] = 1
    /\ cs.gates[4].typ = "Zero" /\ cs.gates[4].o = <<11, 11>>

(* C26 as stated: after create, for every gate of the padded list and each  *)
(* of its ports, sigmal1 at the port's position is the identity value of    *)
(* the position the port is wired to.                                       *)
C26_Original ==
    Created =>
        \A g \in DOMAIN cs.gates : \A pt \in Ports(cs.gates[g]) :
            cs.sigmal1[pt[1]][(pt[2] % cs.n) + 1] =
                s_of(cs.n, cs.r, cs.o)[(pt[3] \div cs.n) + 1][(pt[3] % cs.n) + 1]

(* C26 amended: after create, for every gate of the padded list that is     *)
(* not a Zero gate and each of its ports, sigmal1 at the port's position is *)
(* the identity value of the position the port is wired to, s[0][i] =       *)
(* omega^i, s[1][i] = r*omega^i, s[2][i] = o*omega^i; at the ports of a     *)
(* Zero gate sigmal1 keeps the identity value of the port's own position.   *)
C26_Sigma ==
    Created =>
        LET n == cs.n
            omega == d1_group_gen(n)
            Id(pos) == CMul(CASE pos \div n = 0 -> 1
                              [] pos \div n = 1 -> cs.r
                              [] OTHER -> cs.o,
                            CPow(omega, pos % n))
        IN \A g \in DOMAIN cs.gates : \A pt \in Ports(cs.gates[g]) :
              /\ pt[2] \div n = pt[1] - 1
              /\ cs.sigmal1[pt[1]][(pt[2] % n) + 1] =
                    IF cs.gates[g].typ = "Zero" THEN Id(pt[2]) ELSE Id(pt[3])

C26_Witness ==
    /\ Created /\ Len(cs.input) = 3
    /\ cs.gates[1].typ = "Generic" /\ cs.gates[1].l = <<0, 4>>
    /\ cs.gates[2].typ = "Zero"
    /\ cs.sigmal1[1][1] = cs.r /\ cs.sigmal1[3][1] = 1

(* C27: for every gate list whose wiring is a permutation of [0, 3n) the    *)
(* 3n values of sigmal1 are pairwise distinct and are exactly the 3n        *)
(* identity values, so that sigma is a bijection on the positions.          *)
C27_PermutationInvariant ==
    LET n == cs.n
        Wired == UNION {{pt[3] : pt \in Ports(cs.gates[g])} : g \in DOMAIN cs.gates}
        Sigma == UNION {{cs.sigmal1[c][j] : j \in 1..n} : c \in 1..3}
    IN (Created /\ Wired = 0..(3 * n - 1)) =>
          /\ Cardinality(Sigma) = 3 * n
          /\ Sigma = Coset(1) \cup Coset(2) \cup Coset(3)

(* verify has returned *)
Verified == vf.pc \in {"true", "false"}
(* the witness agrees on the two ends of the three wires of gate g *)
CopyHolds(g) ==
    /\ vf.witness[vf.gates[g + 1].l[2] + 1] = vf.witness[vf.gates[g + 1].l[1] + 1]
    /\ vf.witness[vf.gates[g + 1].r[2] + 1] = vf.witness[vf.gates[g + 1].r[1] + 1]
    /\ vf.witness[vf.gates[g + 1].o[2] + 1] = vf.witness[vf.gates[g + 1].o[1] + 1]
(* the identity of gate g holds, the next gate being the one after it, or   *)
(* itself for the last gate                                                 *)
IdentityHolds(g) ==
    gate_verify(vf.gates[g + 1], vf.witness,
                vf.gates[IF g + 1 = Len(vf.gates) THEN g + 1 ELSE g + 2])

(* C28 as stated: verify on the created system returns true if and only if  *)
(* the witness satisfies the copy constraints of every gate and the         *)
(* identity of every gate's kind.                                           *)
C28_Original ==
    Verified =>
        (vf.pc = "true" <=>
            /\ Len(vf.witness) = 3 * vf.n
            /\ \A g \in 0..(Len(vf.gates) - 1) : CopyHolds(g) /\ IdentityHolds(g))

(* C28 amended: verify on the created system returns true if and only if    *)
(* the witness has 3n elements and satisfies the copy constraints and the   *)
(* kind's identity of every gate whose index is at least the number of      *)
(* public inputs.                                                           *)
C28_RoundTrip ==
    Verified =>
        (vf.pc = "true" <=>
            /\ Len(vf.witness) = 3 * vf.n
            /\ \A g \in vf.public..(Len(vf.gates) - 1) : CopyHolds(g) /\ IdentityHolds(g))

C28_Witness ==
    /\ vf.pc = "true" /\ vf.public = 2
    /\ vf.gates[1].l = <<0, 1>> /\ vf.witness[1] # vf.witness[2]
    /\ vf.gates[3].typ = "Generic"

(* C29: verify returns true exactly when the witness has length 3n and, for *)
(* every gate i in [public, number of gates), the witness agrees on both    *)
(* ends of the left, right and output wires and gate i's identity holds     *)
(* with gate i+1 as the next gate, gate i itself for the last gate; a       *)
(* witness of another length gives false with no element read; no gate      *)
(* below public is ever checked.                                            *)
C29_Verify ==
    /\ vf.pc = "true" =>
          /\ Len(vf.witness) = 3 * vf.n
          /\ \A g \in vf.public..(Len(vf.gates) - 1) :
                /\ g \in vf.checked
                /\ CopyHolds(g)
                /\ gate_verify(vf.gates[g + 1], vf.witness,
                               IF g = Len(vf.gates) - 1 THEN vf.gates[g + 1]
                                                        ELSE vf.gates[g + 2])
    /\ vf.pc = "false" =>
          \/ Len(vf.witness) # 3 * vf.n
          \/ \E g \in vf.public..(Len(vf.gates) - 1) :
                \/ ~CopyHolds(g)
                \/ ~gate_verify(vf.gates[g + 1], vf.witness,
                                IF g = Len(vf.gates) - 1 THEN vf.gates[g + 1]
                                                         ELSE vf.gates[g + 2])
    /\ (vf.pc # "idle" /\ Len(vf.witness) # 3 * vf.n) =>
          /\ vf.pc \in {"length", "false"}
          /\ vf.read = {} /\ vf.checked = {}
    /\ \A g \in vf.checked : g >= vf.public /\ g < Len(vf.gates)

C29_Witness ==
    /\ vf.pc = "true" /\ vf.public = 1
    /\ vf.checked = {1, 2, 3}
    /\ vf.gates[4].typ = "Poseidon" /\ vf.gates[3].typ = "Poseidon"
    /\ vf.witness[11] # vf.witness[3] /\ vf.witness[11] = vf.witness[4]
    /\ 0 \notin vf.read /\ 11 \in vf.read

(* C31: oracles.joint_combiner is present if and only if the verifier index *)
(* has a lookup index; when present its raw challenge is squeezed from the  *)
(* fq sponge if and only if the lookups used are joint, and is zero, with   *)
(* no squeeze made, otherwise; the squeeze comes after the runtime-table    *)
(* commitment is absorbed and before any sorted commitment is absorbed.     *)
C31_JointCombiner ==
    LET li == TheIndex.lookup_index
        fq == tb.fq_sponge
    IN Squeezed(fq, "beta") =>
          /\ tb.joint_combiner.present <=> li.present
          /\ tb.joint_combiner.squeezed <=> (li.present /\ li.joint)
          /\ Squeezed(fq, "joint_combiner") <=> tb.joint_combiner.squeezed
          /\ \A k \in DOMAIN fq :
                fq[k] = Challenge("joint_combiner") =>
                   /\ li.runtime_tables_selector =>
                         \E j \in 1..(k - 1) : fq[j] = AbsorbG("lookup.runtime", 0)
                   /\ \A j \in DOMAIN fq :
                         /\ fq[j].what = "lookup.runtime" => j < k
                         /\ fq[j].what = "lookup.sorted" => j > k
                         /\ fq[j] = Challenge("joint_combiner") => j = k

C31_Witness ==
    /\ Squeezed(tb.fq_sponge, "beta")
    /\ tb.joint_combiner.present /\ tb.joint_combiner.squeezed
    /\ TheIndex.lookup_index.runtime_tables_selector
    /\ Absorbed(tb.fq_sponge, "lookup.runtime")
    /\ Absorbed(tb.fq_sponge, "lookup.sorted")

(* C32: the BatchEvaluationProof returned by to_batch carries the fq sponge *)
(* in the state reached right after the squeeze of zeta: the digest given   *)
(* to the fr sponge is taken on a clone and does not advance the sponge     *)
(* handed to the opener; the evaluation points are [zeta, zeta*omega],      *)
(* polyscale is v and evalscale is u.                                       *)
C32_HandOff ==
    (Returned /\ tb.res = Ok) =>
        LET b == BatchEvaluationProof(TheProof, tb)
        IN /\ b.sponge # <<>>
           /\ b.sponge[Len(b.sponge)] = Challenge("zeta")
           /\ \A k \in 1..(Len(b.sponge) - 1) : b.sponge[k] # Challenge("zeta")
           /\ \A k \in DOMAIN b.sponge : b.sponge[k].op # "digest"
           /\ tb.digest = b.sponge
           /\ tb.fr_sponge[2] = Absorb("digest", 0)
           /\ b.evaluation_points = <<"zeta", "zeta_omega">>
           /\ b.polyscale = "v" /\ b.evalscale = "u"
           /\ Squeezed(tb.fr_sponge, b.polyscale) /\ Squeezed(tb.fr_sponge, b.evalscale)
           /\ b.evaluations = tb.evaluations
           /\ b.opening = TheProof.opening

C32_Witness ==
    /\ Returned /\ tb.res = Ok
    /\ TheIndex.lookup_index.present /\ TheIndex.lookup_index.joint
    /\ BatchEvaluationProof(TheProof, tb).sponge = tb.digest
    /\ Len(tb.digest) > COLUMNS

(* C33: while to_batch builds f_comm the list of scalars and the list of    *)
(* commitments have the same length after every step: they start with the  *)
(* pair (sigma_comm[PERMUTS-1], perm_scalars), grow by the generic scalars  *)
(* paired with the first coefficient commitments, then by one scalar and    *)
(* one commitment per index term of the linearization, in order; the        *)
(* multi-scalar multiplication is called with lists of the same length.     *)
C33_FCommLists ==
    LET g == gnrc_scalars_len
    IN /\ Len(tb.scalars) = Len(tb.commitments)
       /\ (tb.pc = "f_comm_terms" \/ tb.scalars # <<>>) =>
             /\ tb.commitments[1] = [name |-> "sigma_comm", k |-> PERMUTS - 1]
             /\ tb.scalars[1] = [name |-> "perm_scalars", k |-> 0]
             /\ \A k \in 1..g :
                   /\ tb.scalars[1 + k] = [name |-> "generic_scalars", k |-> k - 1]
                   /\ tb.commitments[1 + k] = [name |-> "coefficients_comm", k |-> k - 1]
             /\ Len(tb.scalars) = 1 + g + tb.term
             /\ tb.term <= Len(TheIndex.index_terms)
             /\ \A k \in 1..tb.term :
                   tb.scalars[1 + g + k] = [name |-> "scalar", k |-> k - 1]
       /\ tb.f_comm =>
             /\ tb.term = Len(TheIndex.index_terms)
             /\ Len(tb.scalars) = Len(tb.commitments)

C33_Witness ==
    /\ tb.f_comm
    /\ TheIndex.lookup_index.present /\ TheIndex.lookup_index.runtime_tables_selector
    /\ Len(tb.commitments) = 1 + gnrc_scalars_len + 8
    /\ tb.commitments[Len(tb.commitments)].name = "runtime_tables_selector"

(* C34: for the default fr sponge, after any sequence of calls that ends    *)
(* with absorb, absorb_multiple or absorb_evaluations, last_squeezed is     *)
(* empty; a challenge asked for after an absorption takes no limb of a      *)
(* squeeze made before that absorption.                                     *)
C34_LastSqueezed ==
    /\ (fs.calls # <<>> /\ fs.calls[Len(fs.calls)] # "challenge") =>
          fs.last_squeezed = <<>>
    /\ (fs.calls # <<>> /\ fs.calls[Len(fs.calls)] = "challenge") =>
          \A k \in DOMAIN fs.challenge :
             \A j \in (fs.challenge[k] + 1)..Len(fs.sponge) : fs.sponge[j] # "absorb"

C34_Witness ==
    /\ Len(fs.calls) >= 2
    /\ fs.calls[Len(fs.calls)] = "absorb_evaluations"
    /\ fs.calls[Len(fs.calls) - 1] = "challenge"
    /\ fs.before # <<>>
    /\ fs.last_squeezed = <<>>

(* C35: after create sid has n+3 entries, sid[i] = omega^(i mod n), and      *)
(* shift multiplies coefficient i of the polynomial by sid[i]; for every    *)
(* polynomial p of at most n+3 coefficients and every x,                    *)
(* shift(p)(x) = p(omega*x); shift leaves the constraint system and its     *)
(* argument unchanged.                                                      *)
C35_Shift ==
    /\ [](cs.pc \in {"some", "shifted"} =>
            /\ Len(cs.sid) = cs.n + 3
            /\ \A k \in 1..(cs.n + 3) :
                  cs.sid[k] = CPow(d1_group_gen(cs.n), (k - 1) % cs.n))
    /\ []((cs.pc = "shifted" /\ Len(cs.poly) <= cs.n + 3) =>
            LET value(p, x) ==
                    LET RECURSIVE sum(_)
                        sum(k) == IF k = 0 THEN 0
                                  ELSE (sum(k - 1) + CMul(p[k], CPow(x, k - 1))) % Q
                    IN sum(Len(p))
            IN \A x \in 0..(Q - 1) :
                  value(cs.shifted, x) = value(cs.poly, CMul(d1_group_gen(cs.n), x)))
    /\ [][cs.pc = "some" =>
             cs' = [cs EXCEPT !.pc = "shifted", !.poly = cs'.poly,
                              !.shifted = cs'.shifted]]_vars

C35_Witness ==
    /\ cs.pc = "shifted" /\ cs.n = 4
    /\ cs.poly = <<1, 2, 3, 4, 5, 6, 7>>
    /\ cs.shifted[2] # cs.poly[2] /\ cs.shifted[6] # cs.poly[6]

(* C36: EvalUtils::shift(len) on evaluations of length N > 0 is a rotation  *)
(* to the left by len mod N: the result has length N and                    *)
(* result[i] = evals[(i + len) mod N]; shift(0) and shift(N) return the     *)
(* values of the input; shift(a) followed by shift(b) equals shift(a + b);  *)
(* the receiver is left unchanged.                                          *)
C36_Rotation ==
    /\ []((ut.fn = "shift" /\ ut.pc \in {"shift_again", "done"}) =>
            /\ Len(ut.evals) > 0
            /\ Len(ut.first) = Len(ut.evals)
            /\ \A k \in 0..(Len(ut.evals) - 1) :
                  ut.first[k + 1] = ut.evals[((k + ut.a) % Len(ut.evals)) + 1]
            /\ ut.a \in {0, Len(ut.evals)} => ut.first = ut.evals)
    /\ []((ut.fn = "shift" /\ ut.pc = "done") =>
            /\ Len(ut.result) = Len(ut.evals)
            /\ \A k \in 0..(Len(ut.evals) - 1) :
                  ut.result[k + 1] = ut.evals[((k + ut.a + ut.b) % Len(ut.evals)) + 1])
    /\ [][ut.fn = "shift" => (ut'.evals = ut.evals /\ ut'.a = ut.a /\ ut'.b = ut.b)]_vars

C36_Witness ==
    /\ ut.fn = "shift" /\ ut.pc = "done"
    /\ ut.evals = <<0, 1, 2>> /\ ut.a = 2 /\ ut.b = 2
    /\ ut.first = <<2, 0, 1>> /\ ut.result = <<1, 2, 0>>

(* C37: PolyUtils::eval(elm, size), size >= 1, on a polynomial of L         *)
(* coefficients returns ceil(L / size) values, the k-th the value at elm of *)
(* the chunk of coefficients [k*size, min((k+1)*size, L)), so that the sum  *)
(* over k of result[k] * elm^(k*size) is p(elm); eval_polynomial(coeffs, x) *)
(* is the sum of coeffs[i] * x^i.                                           *)
C37_ChunkedEval ==
    LET value(p, lo, hi, x) ==
            LET RECURSIVE sum(_)
                sum(k) == IF k <= lo THEN 0
                          ELSE (sum(k - 1) + CMul(p[k], CPow(x, k - 1 - lo))) % Q
            IN sum(hi)
        L == Len(ut.evals)
    IN /\ (ut.fn = "eval" /\ ut.pc = "done") =>
             /\ ut.b >= 1
             /\ Len(ut.result) = (L + ut.b - 1) \div ut.b
             /\ \A k \in 0..(Len(ut.result) - 1) :
                   ut.result[k + 1] =
                       value(ut.evals, k * ut.b,
                             IF (k + 1) * ut.b < L THEN (k + 1) * ut.b ELSE L, ut.a)
             /\ LET RECURSIVE total(_)
                    total(k) == IF k = 0 THEN 0
                                ELSE (total(k - 1)
                                      + CMul(ut.result[k], CPow(ut.a, (k - 1) * ut.b))) % Q
                IN total(Len(ut.result)) = value(ut.evals, 0, L, ut.a)
       /\ (ut.fn = "eval_polynomial" /\ ut.pc = "done") =>
             ut.result = value(ut.evals, 0, L, ut.a)

C37_Witness ==
    /\ ut.fn = "eval" /\ ut.pc = "done"
    /\ ut.evals = <<1, 0, 2>> /\ ut.a = 5 /\ ut.b = 2
    /\ ut.result = <<1, 2>>

====
